---- MODULE Spec2Model ----
(***************************************************************************)
(* ShadowMesh strangler-fig gateway (src/gateway/server.js): the traffic   *)
(* router's process-wide state (trafficWeight, stats), its admin           *)
(* operations and its request handlers, each handler cut at its await      *)
(* points (the only places where the event loop interleaves requests).     *)
(***************************************************************************)
EXTENDS Integers, Sequences, FiniteSets, Bags

(***************************************************************************)
(* Bounds of the model.                                                    *)
(***************************************************************************)
MaxReqs == 2      \* requests the gateway receives in one run

(***************************************************************************)
(* JavaScript values, as far as POST /admin/weight can receive them in     *)
(* req.body.weight.  A number is m * 10^e (exact), or NaN.  A string is a  *)
(* sequence of one-character strings.                                      *)
(***************************************************************************)
Undefined == [t |-> "undefined"]
Null == [t |-> "null"]
Bool(b) == [t |-> "boolean", b |-> b]
Num(m, e) == [t |-> "number", nan |-> FALSE, m |-> m, e |-> e]
NaN == [t |-> "number", nan |-> TRUE, m |-> 0, e |-> 0]
Str(s) == [t |-> "string", s |-> s]
Obj == [t |-> "object"]

RECURSIVE Pow10(_)
Pow10(n) == IF n <= 0 THEN 1 ELSE 10 * Pow10(n - 1)

Abs(n) == IF n < 0 THEN -n ELSE n

DigitChars == <<"0", "1", "2", "3", "4", "5", "6", "7", "8", "9">>
IsDigit(c) == \E d \in 1..10 : DigitChars[d] = c
DigitVal(c) == (CHOOSE d \in 1..10 : DigitChars[d] = c) - 1

\* a < b on two numbers that are not NaN
NumLess(a, b) ==
    LET lo == IF a.e < b.e THEN a.e ELSE b.e
    IN  a.m * Pow10(a.e - lo) < b.m * Pow10(b.e - lo)

\* JavaScript's a < b, a > b, a >= b on numbers: false when either is NaN
JsLT(a, b) == ~a.nan /\ ~b.nan /\ NumLess(a, b)
JsGT(a, b) == ~a.nan /\ ~b.nan /\ NumLess(b, a)
JsGE(a, b) == ~a.nan /\ ~b.nan /\ ~NumLess(a, b)

\* the index after the longest run of digits of s that starts at i
RECURSIVE ScanDigits(_, _)
ScanDigits(s, i) ==
    IF i <= Len(s) /\ IsDigit(s[i]) THEN ScanDigits(s, i + 1) ELSE i

\* the value of the digits s[i..j-1] (0 for an empty run)
RECURSIVE DigitsValue(_, _, _)
DigitsValue(s, i, j) ==
    IF j <= i THEN 0 ELSE 10 * DigitsValue(s, i, j - 1) + DigitVal(s[j - 1])

RECURSIVE TrimLeft(_)
TrimLeft(s) == IF s # <<>> /\ Head(s) = " " THEN TrimLeft(Tail(s)) ELSE s

RECURSIVE TrimRight(_)
TrimRight(s) ==
    IF s # <<>> /\ s[Len(s)] = " " THEN TrimRight(SubSeq(s, 1, Len(s) - 1)) ELSE s

\* the decimal digits of a natural number
RECURSIVE NatDigits(_)
NatDigits(n) ==
    IF n < 10 THEN <<DigitChars[n + 1]>>
    ELSE Append(NatDigits(n \div 10), DigitChars[(n % 10) + 1])

\* the digits of n, padded on the left with zeros to width w
RECURSIVE PadDigits(_, _)
PadDigits(n, w) ==
    IF w <= 0 THEN <<>>
    ELSE Append(PadDigits(n \div 10, w - 1), DigitChars[(n % 10) + 1])

\* m * 10^e with the trailing zeros of a fraction removed
RECURSIVE Normalise(_, _)
Normalise(m, e) ==
    IF e < 0 /\ m % 10 = 0 THEN Normalise(m \div 10, e + 1) ELSE <<m, e>>

\* Number::toString for 0 and for 10^-6 <= |x| < 10^21 (decimal notation)
NumberToString(x) ==
    IF x.nan THEN <<"N", "a", "N">>
    ELSE LET n == Normalise(x.m, x.e)
             m == n[1]
             e == n[2]
             sign == IF m < 0 THEN <<"-">> ELSE <<>>
         IN  IF e >= 0 THEN sign \o NatDigits(Abs(m) * Pow10(e))
             ELSE sign \o NatDigits(Abs(m) \div Pow10(-e)) \o <<".">>
                       \o PadDigits(Abs(m) % Pow10(-e), -e)

\* ToString of a value
JsToString(v) ==
    CASE v.t = "undefined" -> <<"u", "n", "d", "e", "f", "i", "n", "e", "d">>
      [] v.t = "null" -> <<"n", "u", "l", "l">>
      [] v.t = "boolean" -> IF v.b THEN <<"t", "r", "u", "e">>
                            ELSE <<"f", "a", "l", "s", "e">>
      [] v.t = "number" -> NumberToString(v)
      [] v.t = "string" -> v.s
      [] v.t = "object" -> <<"[", "o", "b", "j", "e", "c", "t", " ",
                             "O", "b", "j", "e", "c", "t", "]">>

\* StringToNumber: optional sign, digits with an optional fraction, optional
\* exponent; the whole trimmed string has to match, the empty string is 0
StringToNumber(str) ==
    LET s == TrimRight(TrimLeft(str))
        n == Len(s)
        neg == n >= 1 /\ s[1] = "-"
        p1 == IF n >= 1 /\ s[1] \in {"+", "-"} THEN 2 ELSE 1
        p2 == ScanDigits(s, p1)
        hasDot == p2 <= n /\ s[p2] = "."
        p3 == IF hasDot THEN p2 + 1 ELSE p2
        p4 == IF hasDot THEN ScanDigits(s, p3) ELSE p2
        hasExp == p4 <= n /\ s[p4] \in {"e", "E"}
        q1 == p4 + 1
        expNeg == q1 <= n /\ s[q1] = "-"
        q2 == IF q1 <= n /\ s[q1] \in {"+", "-"} THEN q1 + 1 ELSE q1
        q3 == ScanDigits(s, q2)
        last == IF hasExp THEN q3 ELSE p4
        mant == DigitsValue(s, p1, p2) * Pow10(p4 - p3) + DigitsValue(s, p3, p4)
        ex == IF hasExp
              THEN (IF expNeg THEN -1 ELSE 1) * DigitsValue(s, q2, q3)
              ELSE 0
    IN  IF n = 0 THEN Num(0, 0)
        ELSE IF (p2 - p1) + (p4 - p3) = 0 \/ (hasExp /\ q3 = q2) \/ last # n + 1
             THEN NaN
             ELSE Num((IF neg THEN -1 ELSE 1) * mant, ex - (p4 - p3))

\* ToNumber of a value
ToNumber(v) ==
    CASE v.t = "undefined" -> NaN
      [] v.t = "null" -> Num(0, 0)
      [] v.t = "boolean" -> IF v.b THEN Num(1, 0) ELSE Num(0, 0)
      [] v.t = "number" -> v
      [] v.t = "string" -> StringToNumber(v.s)
      [] v.t = "object" -> NaN

\* parseInt(v) with no radix: ToString, skip leading blanks, optional sign,
\* the longest prefix of decimal digits; NaN when that prefix is empty
parseInt(v) ==
    LET s == TrimLeft(JsToString(v))
        n == Len(s)
        neg == n >= 1 /\ s[1] = "-"
        p1 == IF n >= 1 /\ s[1] \in {"+", "-"} THEN 2 ELSE 1
        p2 == ScanDigits(s, p1)
    IN  IF p2 = p1 THEN NaN
        ELSE Num((IF neg THEN -1 ELSE 1) * DigitsValue(s, p1, p2), 0)

(***************************************************************************)
(* The gateway.                                                            *)
(***************************************************************************)
VARIABLES
    trafficWeight,   \* let trafficWeight: a JavaScript number
    stats,           \* totalRequests, monolithRequests, microserviceRequests, lastUpdate
    reqs,            \* the requests received, a bag: handler position, locals,
                     \* fetches made, response sent
    adminRes,        \* the response of the last POST /admin/weight
    running,         \* the gateway process is alive (no exception escaped a handler)
    traced           \* history: the weights of GET /api/products are kept with
                     \* the request (at the choice of the backend, in the answer)

\* the backends, as the gateway's fetches meet them
VARIABLES
    silent           \* the backends that accept a request and never answer it

\* the change-event consumer and its replica store
VARIABLES
    pricing_inventory,   \* the replica table of products, a set of rows
    reviews_replica,     \* the replica table of reviews, a set of rows
    consumerRunning,     \* no exception escaped eachMessage
    handled,             \* history: the last two messages eachMessage was
                         \* called with, and how each handler ended
    applied,             \* history: per topic and id, the after image of the
                         \* latest upsert carried out since the latest delete
    quote,               \* a call of calculateDynamicPrice: arguments, result
    decoding             \* a call of decodeDecimal: arguments, result

\* the legacy store, the change stream out of it, the consumer's place in it
VARIABLES
    products,            \* the legacy table of products, a set of rows
    reviews,             \* the legacy table of reviews, a set of rows
    products_id_seq,     \* the id of the next product
    reviews_id_seq,      \* the id of the next review
    stream,              \* per topic, the change events published so far
    offsets,             \* per topic, the number of events the consumer is past
    faulted,             \* history: the store rejected a statement of the consumer
    reached              \* history: per topic, the largest offset so far

\* main() of the consumer
VARIABLES
    main,                \* the await main is at, "running" once consumer.run
                         \* was called, "exited" after process.exit
    attempts,            \* i of registerConnectors: the attempts made
    registration,        \* history: what registerConnectors returned
    databaseChecked,     \* history: SELECT 1 succeeded
    subscribed,          \* the topics the consumer is subscribed to
    inflight             \* the statements sent to the store and not settled

gatewayVars == <<trafficWeight, stats, reqs, adminRes, running>>
consumerVars ==
    <<pricing_inventory, reviews_replica, consumerRunning, handled, applied>>

legacyVars == <<products, reviews, products_id_seq, reviews_id_seq, stream>>
positionVars == <<offsets, faulted, reached>>
mainVars ==
    <<main, attempts, registration, databaseChecked, subscribed, inflight>>
pipelineVars == <<legacyVars, positionVars, mainVars>>
calls == <<quote, decoding, traced>>

\* what no route of the gateway writes
outsideGateway == <<silent, consumerVars, calls, pipelineVars>>

vars == <<gatewayVars, outsideGateway>>

MONOLITH == "MONOLITH"
MICROSERVICE == "MICROSERVICE"

\* Math.random() * 100, a value of [0, 100): 0, 29.9 and 99.9
RandomDraws == {Num(0, 0), Num(299, -1), Num(999, -1)}

\* values a client can send as req.body.weight
WeightInputs ==
    { Undefined, Null, Bool(TRUE), Obj, Num(-1, 0), Num(30, 0), Num(101, 0),
      Num(305, -1), Str(<<"1", "0", "0">>), Str(<<"a", "b", "c">>),
      Str(<<"1", "0", "0", "0", "e", "-", "2">>) }

\* statuses a backend answers with when it answers with a JSON body
BackendStatuses == {200}

ReadRoutes ==
    {"GET /api/products", "GET /api/products/:id", "GET /api/products/:id/reviews"}
ProductWriteRoutes ==
    {"POST /api/products", "PUT /api/products/:id", "DELETE /api/products/:id",
     "POST /api/products/:id/reviews"}
AuthRoutes ==
    {"POST /api/login", "POST /api/register", "GET /api/cart", "POST /api/cart",
     "PUT /api/cart/:id", "DELETE /api/cart/:id", "DELETE /api/cart"}
WriteRoutes == ProductWriteRoutes \cup AuthRoutes

\* the handler express dispatches a route to
RouteHandler(route) ==
    CASE route = "GET /api/products" -> "list"
      [] route = "GET /api/products/:id" -> "byId"
      [] route = "GET /api/products/:id/reviews" -> "reviews"
      [] route \in ProductWriteRoutes -> "monolithProductProxy"
      [] route \in AuthRoutes -> "authProxy"

ReadHandlers == {"list", "byId", "reviews"}
WriteHandlers == {"monolithProductProxy", "authProxy"}

\* a request as it enters its handler
NewReq(handler) ==
    [handler |-> handler, pc |-> "start", useMonolith |-> FALSE, calls |-> <<>>,
     status |-> 0, xSource |-> "none", xFallback |-> FALSE,
     chosenAt |-> Null, gatewayWeight |-> Undefined]

GatewayInit ==
    /\ trafficWeight = Num(0, 0)
    /\ stats = [totalRequests |-> 0, monolithRequests |-> 0,
                microserviceRequests |-> 0, lastUpdate |-> "start"]
    /\ reqs = EmptyBag
    /\ adminRes = [status |-> 0]
    /\ running = TRUE
    /\ silent = {}

\* the replica tables are created empty (CREATE TABLE IF NOT EXISTS)
ConsumerInit ==
    /\ pricing_inventory = {}
    /\ reviews_replica = {}
    /\ consumerRunning = TRUE
    /\ handled = <<[topic |-> "none", message |-> [value |-> Null],
                    outcome |-> "none"],
                   [topic |-> "none", message |-> [value |-> Null],
                    outcome |-> "none"]>>
    /\ applied = [topic \in {"monolith.public.products",
                              "monolith.public.reviews"} |-> <<>>]

PipelineInit ==
    /\ products = {}
    /\ reviews = {}
    /\ products_id_seq = 1
    /\ reviews_id_seq = 1
    /\ stream = [topic \in {"monolith.public.products",
                             "monolith.public.reviews"} |-> <<>>]
    /\ offsets = [topic \in {"monolith.public.products",
                              "monolith.public.reviews"} |-> 0]
    /\ faulted = FALSE
    /\ reached = [topic \in {"monolith.public.products",
                              "monolith.public.reviews"} |-> 0]

\* main has called consumer.run: the store answered SELECT 1, the connector
\* was registered, the consumer is connected and subscribed to both topics
Started ==
    /\ main = "running"
    /\ attempts = 0
    /\ registration = "registered"
    /\ databaseChecked = TRUE
    /\ subscribed = {"monolith.public.products", "monolith.public.reviews"}
    /\ inflight = {}

\* main is called
Starting ==
    /\ main = "checking"
    /\ attempts = 0
    /\ registration = "none"
    /\ databaseChecked = FALSE
    /\ subscribed = {}
    /\ inflight = {}

NoDecoding == [value |-> Null, bytes |-> <<>>, scale |-> 2, result |-> Null]

NoQuote == [basePrice |-> Num(0, 0), stock |-> Num(0, 0), result |-> Null]

\* the gateway as constructed, next to a consumer that has started
Init ==
    /\ GatewayInit
    /\ ConsumerInit
    /\ PipelineInit
    /\ Started
    /\ quote = NoQuote
    /\ decoding = NoDecoding
    /\ traced = FALSE

Requests == BagToSet(reqs)

\* request r goes on as r2
Continue(r, r2) == reqs' = (reqs (-) SetToBag({r})) (+) SetToBag({r2})

Fetch(target) == [to |-> target, result |-> "pending"]

\* the last fetch of request r, answered
Answered(r, result) == [r.calls EXCEPT ![Len(r.calls)].result = result]

(***************************************************************************)
(* POST /admin/weight                                                      *)
(***************************************************************************)
WeightRejected(weight) ==
    \/ weight = Undefined
    \/ JsLT(ToNumber(weight), Num(0, 0))
    \/ JsGT(ToNumber(weight), Num(100, 0))

\* the validation of line 57 and the conversion of line 65, per input value
WeightCheck ==
    [weight \in WeightInputs |->
        [rejected |-> WeightRejected(weight), parsed |-> parseInt(weight)]]

\* the weight is assigned before it is validated
SetWeightUnvalidated(weight) ==
    /\ running
    /\ UNCHANGED <<stats, reqs, running>>
    /\ trafficWeight' = WeightCheck[weight].parsed
    /\ adminRes' = [status |-> IF WeightCheck[weight].rejected THEN 400 ELSE 200]

SetWeight(weight) ==
    /\ running
    /\ UNCHANGED <<stats, reqs, running>>
    /\ IF WeightCheck[weight].rejected
       THEN /\ adminRes' = [status |-> 400]
            /\ UNCHANGED trafficWeight
       ELSE /\ trafficWeight' = WeightCheck[weight].parsed
            /\ adminRes' = [status |-> 200]

(***************************************************************************)
(* POST /admin/reset-stats.  lastUpdate is the time of construction or of  *)
(* the latest reset; the times of two resets are not told apart.           *)
(***************************************************************************)
\* the reset also puts the weight back to its default
ResetStatsAndWeight ==
    /\ running
    /\ stats' = [totalRequests |-> 0, monolithRequests |-> 0,
                 microserviceRequests |-> 0, lastUpdate |-> "reset"]
    /\ trafficWeight' = Num(0, 0)
    /\ UNCHANGED <<reqs, adminRes, running>>

ResetStats ==
    /\ running
    /\ stats' = [totalRequests |-> 0, monolithRequests |-> 0,
                 microserviceRequests |-> 0, lastUpdate |-> "reset"]
    /\ UNCHANGED <<trafficWeight, reqs, adminRes, running>>

(***************************************************************************)
(* GET /api/products, /api/products/:id, /api/products/:id/reviews         *)
(***************************************************************************)
\* a strict comparison in place of >=
UseMonolithStrict(random, weight) == JsGT(random, weight)

UseMonolith(random, weight) == JsGE(random, weight)

Source(useMonolith) == IF useMonolith THEN MONOLITH ELSE MICROSERVICE

\* the read is counted in totalRequests only when it goes to the replica
CountReadLost(useMonolith) ==
    [stats EXCEPT !.totalRequests = IF useMonolith THEN @ ELSE @ + 1,
                  !.monolithRequests = IF useMonolith THEN @ + 1 ELSE @,
                  !.microserviceRequests = IF useMonolith THEN @ ELSE @ + 1]

\* the counters after a read that chose useMonolith
CountRead(useMonolith) ==
    [stats EXCEPT !.totalRequests = @ + 1,
                  !.monolithRequests = IF useMonolith THEN @ + 1 ELSE @,
                  !.microserviceRequests = IF useMonolith THEN @ ELSE @ + 1]

\* the handler up to its first await: count, draw, choose, count, fetch
ReadStart(route, random) ==
    /\ running
    /\ BagCardinality(reqs) < MaxReqs
    /\ route \in ReadRoutes
    /\ LET useMonolith == UseMonolith(random, trafficWeight)
       IN  /\ stats' = CountRead(useMonolith)
           /\ reqs' = reqs (+) SetToBag({
                 [NewReq(RouteHandler(route)) EXCEPT
                     !.pc = "primary", !.useMonolith = useMonolith,
                     !.calls = <<Fetch(Source(useMonolith))>>,
                     !.chosenAt = IF RouteHandler(route) = "list" /\ traced
                                  THEN trafficWeight ELSE Null]})
    /\ UNCHANGED <<trafficWeight, adminRes, running>>

\* the weight in force when the backend was chosen
GatewayWeightAtChoice(r) == r.chosenAt

\* _gateway.trafficWeight of the body GET /api/products answers with: the
\* global, read after the await
GatewayWeight(r) == trafficWeight

\* the primary fetch resolved and its body parsed as JSON
PrimaryOk(r, status) ==
    /\ running
    /\ r.pc = "primary"
    /\ Continue(r, [r EXCEPT !.pc = "done", !.calls = Answered(r, "ok"),
                             !.status = status, !.xSource = Source(r.useMonolith),
                             !.gatewayWeight = IF r.handler = "list" /\ traced
                                               THEN GatewayWeight(r)
                                               ELSE Undefined])
    /\ UNCHANGED <<trafficWeight, stats, adminRes, running>>

\* the fallback is chosen from the weight in force when the primary fails
FallbackSourceByWeight(handler, useMonolith) ==
    IF handler = "list"
    THEN Source(~UseMonolith(Num(50, 0), trafficWeight))
    ELSE MONOLITH

\* the backend the catch block of a read handler fetches from
FallbackSource(handler, useMonolith) ==
    IF handler = "list" THEN Source(~useMonolith) ELSE MONOLITH

\* the catch block also counts the backend it falls back to
PrimaryFailCounted(r) ==
    /\ running
    /\ r.pc = "primary"
    /\ IF r.handler = "byId"
       THEN /\ Continue(r, [r EXCEPT !.pc = "done", !.calls = Answered(r, "error"),
                                     !.status = 503])
            /\ UNCHANGED stats
       ELSE /\ Continue(r, [r EXCEPT !.pc = "fallback",
                                     !.calls = Append(Answered(r, "error"),
                                         Fetch(Source(~r.useMonolith)))])
            /\ stats' = [stats EXCEPT
                  !.monolithRequests = IF r.useMonolith THEN @ ELSE @ + 1,
                  !.microserviceRequests = IF r.useMonolith THEN @ + 1 ELSE @]
    /\ UNCHANGED <<trafficWeight, adminRes, running>>

\* the primary fetch (or response.json()) threw: the catch block
PrimaryFail(r) ==
    /\ running
    /\ r.pc = "primary"
    /\ IF r.handler = "byId"
       THEN Continue(r, [r EXCEPT !.pc = "done", !.calls = Answered(r, "error"),
                                  !.status = 503])
       ELSE Continue(r, [r EXCEPT !.pc = "fallback",
                                  !.calls = Append(Answered(r, "error"),
                                      Fetch(FallbackSource(r.handler, r.useMonolith)))])
    /\ UNCHANGED <<trafficWeight, stats, adminRes, running>>

\* the fallback fetch resolved
FallbackOk(r, status) ==
    /\ running
    /\ r.pc = "fallback"
    /\ Continue(r, [r EXCEPT !.pc = "done", !.calls = Answered(r, "ok"),
                             !.status = status,
                             !.xSource = FallbackSource(r.handler, r.useMonolith),
                             !.xFallback = (r.handler = "list")])
    /\ UNCHANGED <<trafficWeight, stats, adminRes, running>>

\* the fallback fetch is not inside a try: its rejection escapes the handler
FallbackFailUncaught(r) ==
    /\ running
    /\ r.pc = "fallback"
    /\ Continue(r, [r EXCEPT !.pc = "done", !.calls = Answered(r, "error")])
    /\ running' = FALSE
    /\ UNCHANGED <<trafficWeight, stats, adminRes>>

\* the fallback fetch threw: the inner catch block
FallbackFail(r) ==
    /\ running
    /\ r.pc = "fallback"
    /\ Continue(r, [r EXCEPT !.pc = "done", !.calls = Answered(r, "error"),
                             !.status = 503])
    /\ UNCHANGED <<trafficWeight, stats, adminRes, running>>

(***************************************************************************)
(* monolithProductProxy and authProxy                                      *)
(***************************************************************************)
\* the proxies follow the traffic weight
ProxyTargetWeighted(route) == Source(UseMonolith(Num(50, 0), trafficWeight))

ProxyTarget(route) == MONOLITH

\* onProxyReq counts the request in totalRequests only
WriteStartHalfCounted(route) ==
    /\ running
    /\ BagCardinality(reqs) < MaxReqs
    /\ route \in WriteRoutes
    /\ reqs' = reqs (+) SetToBag({
          [NewReq(RouteHandler(route)) EXCEPT
              !.pc = "proxy", !.calls = <<Fetch(ProxyTarget(route))>>]})
    /\ IF RouteHandler(route) = "monolithProductProxy"
       THEN stats' = [stats EXCEPT !.totalRequests = @ + 1]
       ELSE UNCHANGED stats
    /\ UNCHANGED <<trafficWeight, adminRes, running>>

\* the proxy request is created: onProxyReq
WriteStart(route) ==
    /\ running
    /\ BagCardinality(reqs) < MaxReqs
    /\ route \in WriteRoutes
    /\ reqs' = reqs (+) SetToBag({
          [NewReq(RouteHandler(route)) EXCEPT
              !.pc = "proxy", !.calls = <<Fetch(ProxyTarget(route))>>]})
    /\ IF RouteHandler(route) = "monolithProductProxy"
       THEN stats' = [stats EXCEPT !.totalRequests = @ + 1,
                                   !.monolithRequests = @ + 1]
       ELSE UNCHANGED stats
    /\ UNCHANGED <<trafficWeight, adminRes, running>>

\* the backend answered: onProxyRes, the response is piped to the client
WriteOk(r, status) ==
    /\ running
    /\ r.pc = "proxy"
    /\ Continue(r, [r EXCEPT !.pc = "done", !.calls = Answered(r, "ok"),
                             !.status = status,
                             !.xSource = IF r.handler = "monolithProductProxy"
                                         THEN MONOLITH ELSE "none"])
    /\ UNCHANGED <<trafficWeight, stats, adminRes, running>>

\* the proxy request failed: onError (503), or the proxy's default handler
WriteFail(r) ==
    /\ running
    /\ r.pc = "proxy"
    /\ Continue(r, [r EXCEPT !.pc = "done", !.calls = Answered(r, "error"),
                             !.status = IF r.handler = "monolithProductProxy"
                                        THEN 503 ELSE 504])
    /\ UNCHANGED <<trafficWeight, stats, adminRes, running>>

(***************************************************************************)
(* GET /health: two fetches, one after the other, each with a timeout.     *)
(***************************************************************************)
Backends == {MONOLITH, MICROSERVICE}

\* { timeout: 5000 }, in milliseconds
HealthTimeout == 5000

FetchWithTimeout(target, ms) ==
    [to |-> target, result |-> "pending", timeout |-> ms]

\* the fetch a request is waiting for
LastCall(r) == r.calls[Len(r.calls)]

\* the fetch was given a timeout option
HasTimeout(call) == "timeout" \in DOMAIN call

\* the handler up to its first await
HealthStart ==
    /\ running
    /\ BagCardinality(reqs) < MaxReqs
    /\ reqs' = reqs (+) SetToBag({
          [handler |-> "health", pc |-> "healthMonolith", useMonolith |-> FALSE,
           calls |-> <<FetchWithTimeout(MONOLITH, HealthTimeout)>>,
           status |-> 0, xSource |-> "none", xFallback |-> FALSE,
           health |-> [gateway |-> "healthy", monolith |-> "unknown",
                       microservice |-> "unknown"]]})
    /\ UNCHANGED <<trafficWeight, stats, adminRes, running>>

\* a health fetch settled: "healthy" (res.ok), "unhealthy" (not ok) or
\* "unreachable" (the fetch rejected: the catch block)
HealthFetched(r, verdict) ==
    /\ running
    /\ r.handler = "health"
    /\ LET result == IF verdict = "unreachable" THEN "error" ELSE "ok"
       IN  \/ /\ r.pc = "healthMonolith"
              /\ Continue(r, [r EXCEPT
                    !.pc = "healthMicroservice", !.health.monolith = verdict,
                    !.calls = Append(Answered(r, result),
                                     FetchWithTimeout(MICROSERVICE, HealthTimeout))])
           \/ /\ r.pc = "healthMicroservice"
              /\ Continue(r, [r EXCEPT
                    !.pc = "done", !.health.microservice = verdict,
                    !.calls = Answered(r, result), !.status = 200])
    /\ UNCHANGED <<trafficWeight, stats, adminRes, running>>

(***************************************************************************)
(* A backend that accepts requests and never answers.  A fetch to it       *)
(* settles only through its timeout option, by rejecting; a fetch without  *)
(* that option (node-fetch's default, timeout: 0) stays pending.           *)
(***************************************************************************)
StopsAnswering(backend) ==
    /\ backend \notin silent
    /\ silent' = silent \cup {backend}
    /\ UNCHANGED <<gatewayVars, consumerVars, calls, pipelineVars>>

\* the backend of the pending fetch of r answers or refuses
Answers(r) == r.pc # "done" /\ LastCall(r).to \notin silent

\* the pending fetch of r rejects: the catch block of its handler
Rejected(r) ==
    \/ PrimaryFail(r)
    \/ FallbackFail(r)
    \/ WriteFail(r)
    \/ HealthFetched(r, "unreachable")

\* the timeout of the pending fetch of r expires
TimedOut(r) ==
    /\ r.pc # "done"
    /\ HasTimeout(LastCall(r))
    /\ LastCall(r).to \in silent
    /\ Rejected(r)

\* the backends answer (or refuse) every request of the gateway
Next ==
    \/ (\E weight \in WeightInputs : SetWeight(weight)) /\ UNCHANGED outsideGateway
    \/ ResetStats /\ UNCHANGED outsideGateway
    \/ (\E route \in ReadRoutes, random \in RandomDraws : ReadStart(route, random))
          /\ UNCHANGED outsideGateway
    \/ (\E r \in Requests, status \in BackendStatuses : PrimaryOk(r, status))
          /\ UNCHANGED outsideGateway
    \/ (\E r \in Requests : PrimaryFail(r)) /\ UNCHANGED outsideGateway
    \/ (\E r \in Requests, status \in BackendStatuses : FallbackOk(r, status))
          /\ UNCHANGED outsideGateway
    \/ (\E r \in Requests : FallbackFail(r)) /\ UNCHANGED outsideGateway
    \/ (\E route \in WriteRoutes : WriteStart(route)) /\ UNCHANGED outsideGateway
    \/ (\E r \in Requests, status \in BackendStatuses : WriteOk(r, status))
          /\ UNCHANGED outsideGateway
    \/ (\E r \in Requests : WriteFail(r)) /\ UNCHANGED outsideGateway

Spec == Init /\ [][Next]_vars

\* the same gateway, its requests for the product list kept with their weights
InitTraced ==
    /\ GatewayInit
    /\ ConsumerInit
    /\ PipelineInit
    /\ Started
    /\ quote = NoQuote
    /\ decoding = NoDecoding
    /\ traced = TRUE

SpecTraced == InitTraced /\ [][Next]_vars

HealthVerdicts == {"healthy", "unhealthy", "unreachable"}

\* the routes of the gateway, GET /health among them, in front of backends
\* that may stop answering
NextSilent ==
    \/ (\E weight \in WeightInputs : SetWeight(weight)) /\ UNCHANGED outsideGateway
    \/ ResetStats /\ UNCHANGED outsideGateway
    \/ (\E route \in ReadRoutes, random \in RandomDraws : ReadStart(route, random))
          /\ UNCHANGED outsideGateway
    \/ (\E r \in Requests, status \in BackendStatuses :
            Answers(r) /\ PrimaryOk(r, status)) /\ UNCHANGED outsideGateway
    \/ (\E r \in Requests : Answers(r) /\ PrimaryFail(r)) /\ UNCHANGED outsideGateway
    \/ (\E r \in Requests, status \in BackendStatuses :
            Answers(r) /\ FallbackOk(r, status)) /\ UNCHANGED outsideGateway
    \/ (\E r \in Requests : Answers(r) /\ FallbackFail(r)) /\ UNCHANGED outsideGateway
    \/ (\E route \in WriteRoutes : WriteStart(route)) /\ UNCHANGED outsideGateway
    \/ (\E r \in Requests, status \in BackendStatuses :
            Answers(r) /\ WriteOk(r, status)) /\ UNCHANGED outsideGateway
    \/ (\E r \in Requests : Answers(r) /\ WriteFail(r)) /\ UNCHANGED outsideGateway
    \/ HealthStart /\ UNCHANGED outsideGateway
    \/ (\E r \in Requests, verdict \in HealthVerdicts :
            Answers(r) /\ HealthFetched(r, verdict)) /\ UNCHANGED outsideGateway
    \/ (\E r \in Requests : TimedOut(r)) /\ UNCHANGED outsideGateway
    \/ \E backend \in Backends : StopsAnswering(backend)

SpecSilent == Init /\ [][NextSilent]_vars

(***************************************************************************)
(* The change-event consumer (src/consumer/consumer.js).                   *)
(*                                                                         *)
(* JavaScript objects and the operators the consumer applies to values.    *)
(***************************************************************************)
\* Op(value), with value worked out once
With(value, Op(_)) == CHOOSE r \in {Op(v) : v \in {value}} : TRUE
\* an object with the given fields (a record of values)
Object(fields) == [t |-> "object", f |-> fields]

\* o.field: undefined when the field is missing or o is a primitive
Get(o, field) ==
    IF o.t = "object" /\ "f" \in DOMAIN o /\ field \in DOMAIN o.f
    THEN o.f[field]
    ELSE Undefined

\* ToBoolean
Truthy(value) ==
    With(value, LAMBDA v :
        CASE v.t \in {"undefined", "null"} -> FALSE
          [] v.t = "boolean" -> v.b
          [] v.t = "number" -> ~v.nan /\ v.m # 0
          [] v.t = "string" -> v.s # <<>>
          [] v.t = "object" -> TRUE)

\* a || b
Or(a, b) == With(a, LAMBDA v : IF Truthy(v) THEN v ELSE b)

\* the longest prefix of s that is a decimal literal (sign, digits,
\* fraction, exponent), as a number; NaN when there is none
ParseFloatOf(s) ==
    LET n == Len(s)
        neg == n >= 1 /\ s[1] = "-"
        p1 == IF n >= 1 /\ s[1] \in {"+", "-"} THEN 2 ELSE 1
        p2 == ScanDigits(s, p1)
        hasDot == p2 <= n /\ s[p2] = "."
        p3 == IF hasDot THEN p2 + 1 ELSE p2
        p4 == IF hasDot THEN ScanDigits(s, p3) ELSE p2
        q1 == p4 + 1
        hasE == p4 <= n /\ s[p4] \in {"e", "E"}
        expNeg == hasE /\ q1 <= n /\ s[q1] = "-"
        q2 == IF hasE /\ q1 <= n /\ s[q1] \in {"+", "-"} THEN q1 + 1 ELSE q1
        q3 == IF hasE THEN ScanDigits(s, q2) ELSE q2
        hasExp == hasE /\ q3 > q2
        mant == DigitsValue(s, p1, p2) * Pow10(p4 - p3) + DigitsValue(s, p3, p4)
        ex == IF hasExp
              THEN (IF expNeg THEN -1 ELSE 1) * DigitsValue(s, q2, q3)
              ELSE 0
    IN  IF (p2 - p1) + (p4 - p3) = 0 THEN NaN
        ELSE Num((IF neg THEN -1 ELSE 1) * mant, ex - (p4 - p3))

\* parseFloat(v): ToString, skip leading blanks, parse the prefix
parseFloat(v) == With(TrimLeft(JsToString(v)), LAMBDA s : ParseFloatOf(s))

(***************************************************************************)
(* Natural numbers of any size, as sequences of limbs (least significant   *)
(* first, no leading zero limb), for the 53-bit significands of doubles.   *)
(***************************************************************************)
LimbBits == 10
Limb == 1024

RECURSIVE Pow2(_)
Pow2(n) == IF n <= 0 THEN 1 ELSE 2 * Pow2(n - 1)

\* the number of bits of a natural number
RECURSIVE BitLen(_)
BitLen(n) == IF n = 0 THEN 0 ELSE 1 + BitLen(n \div 2)

RECURSIVE BigOf(_)
BigOf(n) == IF n = 0 THEN <<>> ELSE <<n % Limb>> \o BigOf(n \div Limb)

\* the value of the limbs i.. of a
RECURSIVE BigToIntFrom(_, _)
BigToIntFrom(a, i) ==
    IF i > Len(a) THEN 0 ELSE a[i] + Limb * BigToIntFrom(a, i + 1)

BigToInt(a) == With(a, LAMBDA v : BigToIntFrom(v, 1))

\* the first n limbs of a without the zero limbs at their end
RECURSIVE BigTrimTo(_, _)
BigTrimTo(a, n) ==
    IF n > 0 /\ a[n] = 0 THEN BigTrimTo(a, n - 1) ELSE SubSeq(a, 1, n)

BigTrim(a) == With(a, LAMBDA v : BigTrimTo(v, Len(v)))

LimbAt(a, i) == IF i <= Len(a) THEN a[i] ELSE 0

\* the limbs i.. of a + b, with a carry
RECURSIVE BigAddFrom(_, _, _, _)
BigAddFrom(a, b, i, carry) ==
    IF i > Len(a) /\ i > Len(b) THEN BigOf(carry)
    ELSE With(LimbAt(a, i) + LimbAt(b, i) + carry,
              LAMBDA sum : <<sum % Limb>> \o BigAddFrom(a, b, i + 1, sum \div Limb))

BigAdd(a, b) == With(<<a, b>>, LAMBDA v : BigAddFrom(v[1], v[2], 1, 0))

\* the limbs i.. of a * k, with a carry, for k below 2^20
RECURSIVE BigTimesSmallFrom(_, _, _, _)
BigTimesSmallFrom(a, k, i, carry) ==
    IF i > Len(a) THEN BigOf(carry)
    ELSE With(a[i] * k + carry,
              LAMBDA sum : <<sum % Limb>>
                           \o BigTimesSmallFrom(a, k, i + 1, sum \div Limb))

BigTimesSmall(a, k) ==
    With(<<a, k>>, LAMBDA v : BigTrim(BigTimesSmallFrom(v[1], v[2], 1, 0)))

\* a * Limb^n
BigShiftLimbs(a, n) ==
    With(a, LAMBDA v : IF v = <<>> THEN v ELSE [i \in 1..n |-> 0] \o v)

\* a times the limbs i.. of b
RECURSIVE BigTimesFrom(_, _, _)
BigTimesFrom(a, b, i) ==
    IF i > Len(b) THEN <<>>
    ELSE BigAdd(BigTimesSmall(a, b[i]),
                BigShiftLimbs(BigTimesFrom(a, b, i + 1), 1))

BigTimes(a, b) == With(<<a, b>>, LAMBDA v : BigTimesFrom(v[1], v[2], 1))

\* quotient and remainder of the limbs i.. of a by d, for 0 < d below 2^20
RECURSIVE BigDivSmallFrom(_, _, _)
BigDivSmallFrom(a, d, i) ==
    IF i > Len(a) THEN [q |-> <<>>, r |-> 0]
    ELSE With(BigDivSmallFrom(a, d, i + 1),
              LAMBDA high :
                 With(high.r * Limb + a[i],
                      LAMBDA cur : [q |-> <<cur \div d>> \o high.q, r |-> cur % d]))

BigDivSmall(a, d) ==
    With(<<a, d>>,
         LAMBDA v : With(BigDivSmallFrom(v[1], v[2], 1),
                         LAMBDA res : [q |-> BigTrim(res.q), r |-> res.r]))

BigBitLen(a) ==
    With(a, LAMBDA v : IF v = <<>> THEN 0
                       ELSE (Len(v) - 1) * LimbBits + BitLen(v[Len(v)]))

\* a * 2^s
BigShiftLeft(a, s) ==
    With(s, LAMBDA n : BigShiftLimbs(BigTimesSmall(a, Pow2(n % LimbBits)),
                                     n \div LimbBits))

\* for s > 0: a \div 2^s, with the first bit shifted out (half) and whether
\* any bit below it was set (sticky)
BigShiftRightBy(a, s) ==
    LET drop == (s - 1) \div LimbBits
        low == SubSeq(a, 1, IF drop < Len(a) THEN drop ELSE Len(a))
        high == SubSeq(a, drop + 1, Len(a))
    IN  With(BigDivSmall(high, Pow2((s - 1) % LimbBits)),
             LAMBDA d : [q |-> BigDivSmall(d.q, 2).q,
                         half |-> IF d.q = <<>> THEN 0 ELSE d.q[1] % 2,
                         sticky |-> d.r # 0 \/ \E i \in 1..Len(low) : low[i] # 0])

BigShiftRight(a, s) ==
    With(<<a, s>>,
         LAMBDA v : IF v[2] = 0 THEN [q |-> v[1], half |-> 0, sticky |-> FALSE]
                    ELSE BigShiftRightBy(v[1], v[2]))

(***************************************************************************)
(* IEEE 754 doubles, in the normal range: (-1)^neg * mant * 2^exp with     *)
(* mant below 2^53.  Results are rounded to nearest, ties to even.         *)
(***************************************************************************)
SignificandBits == 53

\* the shifted significand, rounded
RoundedUp(sh, inexact) ==
    IF sh.half = 1 /\ (sh.sticky \/ inexact \/ (sh.q # <<>> /\ sh.q[1] % 2 = 1))
    THEN BigAdd(sh.q, <<1>>)
    ELSE sh.q

\* n * 2^exp (plus a fraction of the last bit when inexact), rounded
RoundToDouble(neg, n, exp, inexact) ==
    With(<<n, BigBitLen(n) - SignificandBits>>,
         LAMBDA v :
            IF v[2] <= 0 THEN [neg |-> neg, mant |-> v[1], exp |-> exp]
            ELSE [neg |-> neg,
                  mant |-> With(BigShiftRight(v[1], v[2]),
                                LAMBDA sh : RoundedUp(sh, inexact)),
                  exp |-> exp + v[2]])

\* the bits kept below the binary point when a decimal fraction is divided
GuardBits == 90

\* the double nearest to the number x = m * 10^e (what a numeric literal
\* and parseFloat produce)
ToDouble(x) ==
    With(x, LAMBDA v :
        With(BigDivSmall(BigShiftLeft(BigOf(Abs(v.m) * Pow10(v.e)), GuardBits),
                         Pow10(-v.e)),
             LAMBDA d : RoundToDouble(v.m < 0, d.q, -GuardBits, d.r # 0)))

\* a * b
DoubleTimes(a, b) ==
    With(<<a, b>>, LAMBDA v :
        With(BigTimes(v[1].mant, v[2].mant),
             LAMBDA product : RoundToDouble(v[1].neg # v[2].neg, product,
                                            v[1].exp + v[2].exp, FALSE)))

\* Number.prototype.toFixed(digits) of a double below 10^21: the integer n
\* with n / 10^digits nearest to x, the larger one of two, then its digits
toFixed(x, digits) ==
    With(x, LAMBDA v :
        With(IF v.exp >= 0
             THEN BigToInt(BigShiftLeft(BigTimesSmall(v.mant, Pow10(digits)), v.exp))
             ELSE With(BigShiftRight(BigTimesSmall(v.mant, Pow10(digits)), -v.exp),
                       LAMBDA sh : BigToInt(sh.q) + sh.half),
             LAMBDA n :
                (IF v.neg /\ v.mant # <<>> THEN <<"-">> ELSE <<>>)
                \o NatDigits(n \div Pow10(digits))
                \o (IF digits > 0
                    THEN <<".">> \o PadDigits(n % Pow10(digits), digits)
                    ELSE <<>>)))


(***************************************************************************)
(* decodeDecimal                                                           *)
(***************************************************************************)
Base64Chars ==
    <<"A", "B", "C", "D", "E", "F", "G", "H", "I", "J", "K", "L", "M",
      "N", "O", "P", "Q", "R", "S", "T", "U", "V", "W", "X", "Y", "Z",
      "a", "b", "c", "d", "e", "f", "g", "h", "i", "j", "k", "l", "m",
      "n", "o", "p", "q", "r", "s", "t", "u", "v", "w", "x", "y", "z",
      "0", "1", "2", "3", "4", "5", "6", "7", "8", "9", "+", "/">>

IsBase64(c) == \E i \in 1..64 : Base64Chars[i] = c
Base64Val(c) == (CHOOSE i \in 1..64 : Base64Chars[i] = c) - 1

\* the 6-bit groups of a base64 text: it ends at the first "=", characters
\* outside the alphabet are skipped
RECURSIVE Sextets(_)
Sextets(s) ==
    IF s = <<>> \/ Head(s) = "=" THEN <<>>
    ELSE IF IsBase64(Head(s)) THEN <<Base64Val(Head(s))>> \o Sextets(Tail(s))
         ELSE Sextets(Tail(s))

\* the groups read as one number, most significant first
RECURSIVE SextetsValue(_)
SextetsValue(g) ==
    IF g = <<>> THEN 0 ELSE 64 * SextetsValue(SubSeq(g, 1, Len(g) - 1)) + g[Len(g)]

\* Buffer.from(text, 'base64'), for up to five groups: the number of whole
\* bytes and their value read big-endian without sign
Base64Buffer(s) ==
    With(Sextets(s), LAMBDA g :
        LET length == (6 * Len(g)) \div 8
        IN  [length |-> length,
             value |-> SextetsValue(g) \div Pow2(6 * Len(g) - 8 * length)])

\* the bytes as a two's-complement integer
TwosComplement(buffer) ==
    With(buffer, LAMBDA b :
        IF b.length > 0 /\ b.value >= Pow2(8 * b.length - 1)
        THEN b.value - Pow2(8 * b.length)
        ELSE b.value)

DecodeDecimalText(value, scale) ==
    With(parseFloat(value), LAMBDA parsed :
        IF ~parsed.nan THEN parsed
        ELSE With(Normalise(TwosComplement(Base64Buffer(value.s)), -scale),
                  LAMBDA n : Num(n[1], n[2])))

decodeDecimal(val, scale) ==
    With(val, LAMBDA value :
        IF ~Truthy(value) THEN Num(0, 0)
        ELSE IF value.t = "number" THEN value
        ELSE IF value.t = "string" THEN DecodeDecimalText(value, scale)
        ELSE Num(0, 0))

(***************************************************************************)
(* calculateDynamicPrice                                                   *)
(***************************************************************************)
\* the demand score of a stock level
DemandScore(stockNum) ==
    IF JsLT(stockNum, Num(10, 0)) THEN Num(13, -1)
    ELSE IF JsLT(stockNum, Num(25, 0)) THEN Num(115, -2)
    ELSE IF JsLT(stockNum, Num(50, 0)) THEN Num(105, -2)
    ELSE IF JsGT(stockNum, Num(200, 0)) THEN Num(9, -1)
    ELSE Num(1, 0)

calculateDynamicPrice(basePrice, stock) ==
    With(Or(parseFloat(basePrice), Num(0, 0)), LAMBDA price :
    With(Or(parseInt(stock), Num(0, 0)), LAMBDA stockNum :
    With(ToDouble(DemandScore(stockNum)), LAMBDA demandScore :
        [dynamicPrice |->
            Str(toFixed(DoubleTimes(ToDouble(price), demandScore), 2)),
         demandScore |-> Str(toFixed(demandScore, 2))])))

(***************************************************************************)
(* The replica store (PostgreSQL): what a query parameter becomes in a     *)
(* column, and the two statements of the consumer.  A DECIMAL(p, 2) value  *)
(* is kept as its number of hundredths.  synced_at, the time of the write, *)
(* is not kept.                                                            *)
(***************************************************************************)
\* an INTEGER column refuses NaN
IntegerRefused(v) == v.t # "number" \/ v.nan \/ Normalise(v.m, v.e)[2] < 0

IntegerColumn(v) == v.m * Pow10(v.e)

\* the number a parameter of a DECIMAL column is read as
NumericInput(v) == IF v.t = "string" THEN StringToNumber(v.s) ELSE v

NumericRefused(v) == v.t \notin {"number", "string"} \/ NumericInput(v).nan

\* DECIMAL(p, 2): rounded to two decimals, half away from zero
NumericColumn(v) ==
    With(NumericInput(v), LAMBDA x :
        LET unit == Pow10(-2 - x.e)
            hundredths == IF x.e >= -2 THEN Abs(x.m) * Pow10(x.e + 2)
                          ELSE (2 * Abs(x.m) + unit) \div (2 * unit)
        IN  IF x.m < 0 THEN -hundredths ELSE hundredths)

\* ON CONFLICT (id) DO NOTHING
UpsertIfAbsent(table, row) ==
    IF \E r \in table : r.id = row.id THEN table ELSE table \cup {row}

\* INSERT INTO t (...) VALUES (...) ON CONFLICT (id) DO UPDATE SET every
\* other column = EXCLUDED.column
Upsert(table, row) == {r \in table : r.id # row.id} \cup {row}

\* DELETE FROM t WHERE id <> $1
DeleteOthers(table, id) == {r \in table : r.id = id}

\* DELETE FROM t WHERE id = $1
Delete(table, id) == {r \in table : r.id # id}

(***************************************************************************)
(* Kafka messages.  message.value is null (a tombstone) or a buffer; the   *)
(* buffer holds the text of a JSON value (json) or some other text.        *)
(***************************************************************************)
PRODUCTS_TOPIC == "monolith.public.products"
REVIEWS_TOPIC == "monolith.public.reviews"
Topics == {PRODUCTS_TOPIC, REVIEWS_TOPIC}

Json(value) == [value |-> [t |-> "buffer", json |-> value]]
NotJson == [value |-> [t |-> "buffer"]]
Tombstone == [value |-> Null]

\* a Debezium change event
ChangeEvent(op, before, after) ==
    Json(Object([payload |->
        Object([op |-> Str(<<op>>), before |-> before, after |-> after])]))

\* JSON.parse(message.value.toString()) throws, or destructuring its result
\* does
ParseThrows(message) ==
    \/ message.value = Null
    \/ "json" \notin DOMAIN message.value
    \/ message.value.json.t \in {"null", "undefined"}

\* updates are left out
IsInsert(payload) ==
    /\ Get(payload, "op") \in {Str(<<"c">>), Str(<<"r">>)}
    /\ Truthy(Get(payload, "after"))

IsUpsert(payload) ==
    /\ Get(payload, "op") \in {Str(<<"c">>), Str(<<"u">>), Str(<<"r">>)}
    /\ Truthy(Get(payload, "after"))

\* the delete branch does not look at before
IsDeleteUnguarded(payload) == Get(payload, "op") = Str(<<"d">>)

IsDelete(payload) ==
    /\ Get(payload, "op") = Str(<<"d">>)
    /\ Truthy(Get(payload, "before"))

\* the parameters of the upsert of processProductMessage
ProductParams(after) ==
    With(decodeDecimal(Get(after, "price"), 2), LAMBDA price :
    With(Or(parseInt(Get(after, "stock")), Num(0, 0)), LAMBDA stock :
    With(calculateDynamicPrice(price, stock), LAMBDA priced :
        [id |-> parseInt(Get(after, "id")),
         name |-> Or(Get(after, "name"), Str(<<>>)),
         description |-> Or(Get(after, "description"), Str(<<>>)),
         price |-> price,
         stock |-> stock,
         image_url |-> Or(Get(after, "image_url"), Null),
         category |-> Or(Get(after, "category"), Null),
         dynamicPrice |-> priced.dynamicPrice,
         demandScore |-> priced.demandScore])))

\* pricing_inventory refuses the parameters
ProductRefused(p) ==
    \/ IntegerRefused(p.id) \/ IntegerRefused(p.stock)
    \/ NumericRefused(p.price) \/ NumericRefused(p.dynamicPrice)
    \/ NumericRefused(p.demandScore)
    \/ p.name = Null

\* the row of pricing_inventory the parameters make
ProductRow(p) ==
    [id |-> IntegerColumn(p.id), name |-> p.name, description |-> p.description,
     price |-> NumericColumn(p.price), stock |-> IntegerColumn(p.stock),
     image_url |-> p.image_url, category |-> p.category,
     dynamic_price |-> NumericColumn(p.dynamicPrice),
     demand_score |-> NumericColumn(p.demandScore)]

\* the parameters of the upsert of processReviewMessage
ReviewParams(after) ==
    [id |-> parseInt(Get(after, "id")),
     product_id |-> parseInt(Get(after, "product_id")),
     user_id |-> parseInt(Get(after, "user_id")),
     username |-> Or(Get(after, "username"), Str(<<>>)),
     rating |-> parseInt(Get(after, "rating")),
     comment |-> Or(Get(after, "comment"), Str(<<>>))]

ReviewRefused(p) ==
    \/ IntegerRefused(p.id) \/ IntegerRefused(p.product_id)
    \/ IntegerRefused(p.user_id) \/ IntegerRefused(p.rating)

ReviewRow(p) ==
    [id |-> IntegerColumn(p.id), product_id |-> IntegerColumn(p.product_id),
     user_id |-> IntegerColumn(p.user_id), username |-> p.username,
     rating |-> IntegerColumn(p.rating), comment |-> p.comment]

\* what a handler does with a message up to its await: it throws, returns
\* at once (skip: no payload; none: neither branch), or sends a statement
\* to the store
processProductMessage(message) ==
    IF ParseThrows(message) THEN [kind |-> "throw"]
    ELSE With(Get(message.value.json, "payload"), LAMBDA payload :
        IF ~Truthy(payload) THEN [kind |-> "skip"]
        ELSE IF IsUpsert(payload)
             THEN With(ProductParams(Get(payload, "after")), LAMBDA p :
                      [kind |-> "upsert", id |-> p.id,
                       refused |-> ProductRefused(p),
                       row |-> IF ProductRefused(p) THEN Null ELSE ProductRow(p)])
        ELSE IF IsDelete(payload)
             THEN With(parseInt(Get(Get(payload, "before"), "id")), LAMBDA id :
                      [kind |-> "delete", id |-> id,
                       refused |-> IntegerRefused(id)])
        ELSE [kind |-> "none"])

processReviewMessage(message) ==
    IF ParseThrows(message) THEN [kind |-> "throw"]
    ELSE With(Get(message.value.json, "payload"), LAMBDA payload :
        IF ~Truthy(payload) THEN [kind |-> "skip"]
        ELSE IF IsUpsert(payload)
             THEN With(ReviewParams(Get(payload, "after")), LAMBDA p :
                      [kind |-> "upsert", id |-> p.id,
                       refused |-> ReviewRefused(p),
                       row |-> IF ReviewRefused(p) THEN Null ELSE ReviewRow(p)])
        ELSE IF IsDelete(payload)
             THEN With(parseInt(Get(Get(payload, "before"), "id")), LAMBDA id :
                      [kind |-> "delete", id |-> id,
                       refused |-> IntegerRefused(id)])
        ELSE [kind |-> "none"])

(***************************************************************************)
(* The messages of a run.                                                  *)
(***************************************************************************)
\* the row images of products: a cheap scarce product, a dear plentiful one
ProductImage(id, variant) ==
    IF variant = 1
    THEN Object([id |-> Num(id, 0), name |-> Str(<<"a">>), description |-> Null,
                 price |-> Str(<<"0", ".", "3", "5">>), stock |-> Num(5, 0),
                 image_url |-> Null, category |-> Null])
    ELSE Object([id |-> Num(id, 0), name |-> Str(<<"b">>),
                 description |-> Str(<<"d">>),
                 price |-> Str(<<"1", "0", ".", "0", "0">>),
                 stock |-> Num(300, 0), image_url |-> Str(<<"u">>),
                 category |-> Str(<<"c">>)])

ReviewImage(id, variant) ==
    IF variant = 1
    THEN Object([id |-> Num(id, 0), product_id |-> Num(1, 0), user_id |-> Num(2, 0),
                 username |-> Str(<<"j">>), rating |-> Num(5, 0),
                 comment |-> Null])
    ELSE Object([id |-> Num(id, 0), product_id |-> Num(1, 0), user_id |-> Num(3, 0),
                 username |-> Str(<<"s">>), rating |-> Num(1, 0),
                 comment |-> Str(<<"o", "k">>)])

\* the key of a row, as DELETE events carry it
KeyImage(id) == Object([id |-> Num(id, 0)])

ProductIds == {1, 2}
ReviewIds == {1}

\* messages no branch of a handler takes: an envelope without payload, an
\* unknown operation (without and with row images), a create and an update
\* without after, a delete without before
UnhandledMessages ==
    { Json(Object([schema |-> Null])),
      ChangeEvent("t", Null, Null), ChangeEvent("m", KeyImage(1), KeyImage(1)),
      ChangeEvent("c", Null, Null), ChangeEvent("u", KeyImage(1), Null),
      ChangeEvent("d", Null, Null) }

\* messages that change nothing: a tombstone, text that is not JSON, JSON
\* null, and the messages no branch takes
OddMessages == {Tombstone, NotJson, Json(Null)} \cup UnhandledMessages

ProductMessages ==
    {ChangeEvent(op, Null, ProductImage(id, variant)) :
        op \in {"c", "u"}, id \in ProductIds, variant \in {1, 2}}
    \cup {ChangeEvent("r", Null, ProductImage(id, 1)) : id \in ProductIds}
    \cup {ChangeEvent("d", KeyImage(id), Null) : id \in ProductIds}
    \cup {ChangeEvent("c", Null, Object([name |-> Str(<<"a">>)]))}
    \cup OddMessages

ReviewMessages ==
    {ChangeEvent(op, Null, ReviewImage(id, variant)) :
        op \in {"c", "u"}, id \in ReviewIds, variant \in {1, 2}}
    \cup {ChangeEvent("r", Null, ReviewImage(id, 1)) : id \in ReviewIds}
    \cup {ChangeEvent("d", KeyImage(id), Null) : id \in ReviewIds}
    \cup {ChangeEvent("c", Null,
            Object([id |-> Num(1, 0), product_id |-> Num(1, 0),
                    user_id |-> Num(2, 0), rating |-> Null]))}
    \cup {Tombstone}
    \cup UnhandledMessages

Messages(topic) ==
    IF topic = PRODUCTS_TOPIC THEN ProductMessages ELSE ReviewMessages

(***************************************************************************)
(* The legacy store (src/unnamed/part_000 over the schema of               *)
(* src/unnamed/part_001), the change stream the registered connector       *)
(* publishes out of it, and the consumer reading that stream.              *)
(***************************************************************************)
\* the change events published before the legacy store stops changing
MaxEvents == 3

\* the bodies of POST and PUT /api/products
ProductBody(variant) ==
    IF variant = 1
    THEN Object([name |-> Str(<<"a">>), price |-> Num(35, -2), stock |-> Num(5, 0)])
    ELSE Object([name |-> Str(<<"b">>), description |-> Str(<<"d">>),
                 price |-> Str(<<"1", "0">>), stock |-> Str(<<"3", "0", "0">>),
                 image_url |-> Str(<<"u">>), category |-> Str(<<"c">>)])

\* the bodies of POST /api/products/:id/reviews
ReviewBody(variant) ==
    IF variant = 1 THEN Object([rating |-> Num(5, 0)])
    ELSE Object([rating |-> Num(1, 0), comment |-> Str(<<"o", "k">>)])

\* req.user of the token
User == [id |-> Num(2, 0), username |-> Str(<<"j">>)]

\* the parameters of the INSERT of POST /api/products
InsertProductParams(body) ==
    [name |-> Get(body, "name"),
     description |-> Get(body, "description"),
     price |-> parseFloat(Get(body, "price")),
     stock |-> Or(parseInt(Get(body, "stock")), Num(0, 0)),
     image_url |-> Or(Get(body, "image_url"), Null),
     category |-> Or(Get(body, "category"), Null)]

\* the parameters of the UPDATE of PUT /api/products/:id
UpdateProductParams(body) ==
    [name |-> Get(body, "name"),
     description |-> Get(body, "description"),
     price |-> parseFloat(Get(body, "price")),
     stock |-> parseInt(Get(body, "stock")),
     image_url |-> Get(body, "image_url"),
     category |-> Get(body, "category")]

\* an undefined parameter is sent as NULL
Param(v) == IF v = Undefined THEN Null ELSE v

\* products refuses the parameters: name and price are NOT NULL, stock is
\* an INTEGER
LegacyProductRefused(p) ==
    \/ Param(p.name) = Null
    \/ NumericRefused(p.price)
    \/ IntegerRefused(p.stock)

\* the row of products the parameters make
LegacyProductRow(id, params) ==
    With(params, LAMBDA p :
        [id |-> id, name |-> p.name, description |-> Param(p.description),
         price |-> NumericColumn(p.price), stock |-> IntegerColumn(p.stock),
         image_url |-> Param(p.image_url), category |-> Param(p.category)])

\* the row of reviews of POST /api/products/:id/reviews
LegacyReviewRow(id, product_id, body) ==
    [id |-> id, product_id |-> product_id, user_id |-> IntegerColumn(User.id),
     username |-> User.username, rating |-> IntegerColumn(Get(body, "rating")),
     comment |-> Param(Get(body, "comment"))]

\* decimal.handling.mode string: a DECIMAL(10, 2) as text with two decimals
DecimalText(hundredths) ==
    (IF hundredths < 0 THEN <<"-">> ELSE <<>>)
    \o NatDigits(Abs(hundredths) \div 100) \o <<".">>
    \o PadDigits(Abs(hundredths) % 100, 2)

\* the image of a row in a change event (its timestamps left out)
ProductChangeImage(legacy) ==
    With(legacy, LAMBDA row :
        Object([id |-> Num(row.id, 0), name |-> row.name,
                description |-> row.description,
                price |-> Str(DecimalText(row.price)), stock |-> Num(row.stock, 0),
                image_url |-> row.image_url, category |-> row.category]))

ReviewChangeImage(row) ==
    Object([id |-> Num(row.id, 0), product_id |-> Num(row.product_id, 0),
            user_id |-> Num(row.user_id, 0), username |-> row.username,
            rating |-> Num(row.rating, 0), comment |-> row.comment])

\* the events of the deletion of the rows with these ids, in the order of
\* the ids: each a delete event with the key and then a tombstone
RECURSIVE DeleteEvents(_)
DeleteEvents(ids) ==
    IF ids = {} THEN <<>>
    ELSE LET id == CHOOSE i \in ids : \A j \in ids : i <= j
         IN  <<ChangeEvent("d", KeyImage(id), Null), Tombstone>>
             \o DeleteEvents(ids \ {id})

\* the events of a topic that a run can publish
StreamMessages(topic) ==
    IF topic = PRODUCTS_TOPIC
    THEN {ChangeEvent("c", Null,
            ProductChangeImage(LegacyProductRow(id, InsertProductParams(ProductBody(variant))))) :
                id \in 1..MaxEvents, variant \in {1, 2}}
         \cup {ChangeEvent("u", Null,
            ProductChangeImage(LegacyProductRow(id, UpdateProductParams(ProductBody(variant))))) :
                id \in 1..MaxEvents, variant \in {1, 2}}
         \cup {ChangeEvent("d", KeyImage(id), Null) : id \in 1..MaxEvents}
         \cup {Tombstone}
    ELSE {ChangeEvent("c", Null,
            ReviewChangeImage(LegacyReviewRow(id, product_id, ReviewBody(variant)))) :
                id \in 1..MaxEvents, product_id \in 1..MaxEvents, variant \in {1, 2}}
         \cup {ChangeEvent("d", KeyImage(id), Null) : id \in 1..MaxEvents}
         \cup {Tombstone}

\* prices that are no decimal text: null, '', and text that is neither a
\* number nor base64
MalformedPrices ==
    {Null, Str(<<>>), Str(<<"a", "b", "c">>), Str(<<"N", "/", "A">>)}

\* the row image of product 1 with the given price
PricedImage(price) ==
    Object([id |-> Num(1, 0), name |-> Str(<<"b">>), description |-> Str(<<"d">>),
            price |-> price, stock |-> Num(300, 0), image_url |-> Str(<<"u">>),
            category |-> Str(<<"c">>)])

\* the row image of product 1 without a price
UnpricedImage ==
    Object([id |-> Num(1, 0), name |-> Str(<<"b">>), description |-> Str(<<"d">>),
            stock |-> Num(300, 0), image_url |-> Str(<<"u">>),
            category |-> Str(<<"c">>)])

\* create events of product 1 whose price is missing or malformed
DegradedMessages ==
    {ChangeEvent("c", Null, PricedImage(price)) : price \in MalformedPrices}
    \cup {ChangeEvent("c", Null, UnpricedImage)}

(***************************************************************************)
(* consumer.run({ eachMessage }): one message at a time, the product       *)
(* handler or the review handler by topic, each wholly inside a try whose  *)
(* catch logs the error.                                                   *)
(***************************************************************************)
Handling(topic, message) ==
    IF topic = PRODUCTS_TOPIC THEN processProductMessage(message)
    ELSE processReviewMessage(message)

\* Handling, worked out once per message
HandlingTable ==
    [topic \in Topics |->
        [message \in Messages(topic) \cup StreamMessages(topic)
                        \cup DegradedMessages |->
            Handling(topic, message)]]

\* pool.query rejects (the connection, the statement) or resolves
StorageOutcomes == {"ok", "error"}

\* how the handler ends
Outcome(st, storage) ==
    CASE st.kind = "throw" -> "error"
      [] st.kind = "skip" -> "skipped"
      [] st.kind = "none" -> "ignored"
      [] st.kind = "upsert" ->
            IF st.refused \/ storage = "error" THEN "error" ELSE "upserted"
      [] st.kind = "delete" ->
            IF st.refused \/ storage = "error" THEN "error" ELSE "deleted"

\* an upsert of a row that is there as it is removes it
WrittenToggling(table, st, outcome) ==
    IF outcome = "upserted"
    THEN (IF st.row \in table THEN Delete(table, st.row.id)
          ELSE Upsert(table, st.row))
    ELSE IF outcome = "deleted" THEN Delete(table, IntegerColumn(st.id))
    ELSE table

\* the table after the statement, if one was carried out
Written(table, st, outcome) ==
    IF outcome = "upserted" THEN Upsert(table, st.row)
    ELSE IF outcome = "deleted" THEN Delete(table, IntegerColumn(st.id))
    ELSE table

\* payload.after of a change event
AfterOf(message) == Get(Get(message.value.json, "payload"), "after")

\* the record of the events carried out, per id: the after image of the
\* latest upsert, nothing after a delete
Recorded(history, st, message, outcome) ==
    IF outcome = "upserted"
    THEN [k \in DOMAIN history \cup {IntegerColumn(st.id)} |->
             IF k = IntegerColumn(st.id) THEN AfterOf(message) ELSE history[k]]
    ELSE IF outcome = "deleted"
    THEN [k \in DOMAIN history \ {IntegerColumn(st.id)} |-> history[k]]
    ELSE history

\* the handler rethrows what it caught
HandlerRethrows(outcome) == outcome # "error"

\* catch (error) { console.error(...) }: the handler returns normally
HandlerReturns(outcome) == TRUE

eachMessage(topic, message, storage) ==
    /\ consumerRunning
    /\ topic \in Topics
    /\ \E st \in {HandlingTable[topic][message]} :
       \E outcome \in {Outcome(st, storage)} :
           /\ IF topic = PRODUCTS_TOPIC
              THEN /\ pricing_inventory' = Written(pricing_inventory, st, outcome)
                   /\ UNCHANGED reviews_replica
              ELSE /\ reviews_replica' = Written(reviews_replica, st, outcome)
                   /\ UNCHANGED pricing_inventory
           /\ handled' = <<handled[2],
                           [topic |-> topic, message |-> message,
                            outcome |-> outcome]>>
           /\ applied' = [applied EXCEPT
                            ![topic] = Recorded(@, st, message, outcome)]
           /\ consumerRunning' = HandlerReturns(outcome)

\* a message arrives, whatever the stream holds
Receive(topic, message, storage) ==
    /\ eachMessage(topic, message, storage)
    /\ UNCHANGED <<gatewayVars, silent, calls, pipelineVars>>

(***************************************************************************)
(* The legacy store changes, the connector publishes, the consumer reads.  *)
(***************************************************************************)
\* the cascaded deletions are not published
UnpublishedCascade(id) == <<>>

\* table.include.list holds public.reviews: the deletions of the reviews of
\* product id, which its deletion cascades to, are published
PublishedCascade(id) ==
    DeleteEvents({r.id : r \in {x \in reviews : x.product_id = id}})

Published == Len(stream[PRODUCTS_TOPIC]) + Len(stream[REVIEWS_TOPIC])

\* POST /api/products
CreateProduct(body) ==
    /\ Published < MaxEvents
    /\ Truthy(Get(body, "name")) /\ Truthy(Get(body, "price"))
    /\ \E p \in {InsertProductParams(body)} :
          /\ ~LegacyProductRefused(p)
          /\ \E row \in {LegacyProductRow(products_id_seq, p)} :
                /\ products' = products \cup {row}
                /\ stream' = [stream EXCEPT ![PRODUCTS_TOPIC] =
                        Append(@, ChangeEvent("c", Null, ProductChangeImage(row)))]
    /\ products_id_seq' = products_id_seq + 1
    /\ UNCHANGED <<reviews, reviews_id_seq, positionVars, mainVars>>
    /\ UNCHANGED <<gatewayVars, silent, consumerVars, calls>>

\* PUT /api/products/:id
UpdateProduct(id, body) ==
    /\ Published < MaxEvents
    /\ \E old \in products : old.id = id
    /\ \E p \in {UpdateProductParams(body)} :
          /\ ~LegacyProductRefused(p)
          /\ \E row \in {LegacyProductRow(id, p)} :
                /\ products' = {r \in products : r.id # id} \cup {row}
                /\ stream' = [stream EXCEPT ![PRODUCTS_TOPIC] =
                        Append(@, ChangeEvent("u", Null, ProductChangeImage(row)))]
    /\ UNCHANGED <<reviews, products_id_seq, reviews_id_seq, positionVars, mainVars>>
    /\ UNCHANGED <<gatewayVars, silent, consumerVars, calls>>

\* DELETE /api/products/:id, with ON DELETE CASCADE of reviews.product_id
DeleteProduct(id) ==
    /\ Published < MaxEvents
    /\ \E old \in products : old.id = id
    /\ products' = {r \in products : r.id # id}
    /\ reviews' = {r \in reviews : r.product_id # id}
    /\ stream' = [stream EXCEPT
            ![PRODUCTS_TOPIC] = @ \o DeleteEvents({id}),
            ![REVIEWS_TOPIC] = @ \o PublishedCascade(id)]
    /\ UNCHANGED <<products_id_seq, reviews_id_seq, positionVars, mainVars>>
    /\ UNCHANGED <<gatewayVars, silent, consumerVars, calls>>

\* POST /api/products/:id/reviews
CreateReview(product_id, body) ==
    /\ Published < MaxEvents
    /\ Truthy(Get(body, "rating"))
    /\ ~JsLT(Get(body, "rating"), Num(1, 0)) /\ ~JsGT(Get(body, "rating"), Num(5, 0))
    /\ \E product \in products : product.id = product_id
    /\ \E row \in {LegacyReviewRow(reviews_id_seq, product_id, body)} :
          /\ reviews' = reviews \cup {row}
          /\ stream' = [stream EXCEPT ![REVIEWS_TOPIC] =
                  Append(@, ChangeEvent("c", Null, ReviewChangeImage(row)))]
    /\ reviews_id_seq' = reviews_id_seq + 1
    /\ UNCHANGED <<products, products_id_seq, positionVars, mainVars>>
    /\ UNCHANGED <<gatewayVars, silent, consumerVars, calls>>

\* the store rejected a statement the handler sent
StatementFailed(topic, message, storage) ==
    /\ storage = "error"
    /\ HandlingTable[topic][message].kind \in {"upsert", "delete"}

\* consumer.run: the next event of a topic goes through eachMessage, and
\* the consumer is past it once eachMessage has returned
Consume(topic, storage) ==
    /\ main = "running" /\ topic \in subscribed
    /\ offsets[topic] < Len(stream[topic])
    /\ \E message \in {stream[topic][offsets[topic] + 1]} :
          /\ eachMessage(topic, message, storage)
          /\ faulted' = (faulted \/ StatementFailed(topic, message, storage))
    /\ offsets' = [offsets EXCEPT ![topic] = IF consumerRunning' THEN @ + 1 ELSE @]
    /\ reached' = [reached EXCEPT
                      ![topic] = IF offsets'[topic] > @ THEN offsets'[topic] ELSE @]
    /\ UNCHANGED <<gatewayVars, silent, calls, legacyVars, mainVars>>

\* the consumer restarts from an earlier offset of a topic and reads the
\* events after it again, in their order
Redeliver(topic, offset) ==
    /\ offset < offsets[topic]
    /\ offsets' = [offsets EXCEPT ![topic] = offset]
    /\ UNCHANGED <<gatewayVars, silent, calls, legacyVars, consumerVars>>
    /\ UNCHANGED <<faulted, reached, mainVars>>

NextPipeline ==
    \/ \E variant \in {1, 2} : CreateProduct(ProductBody(variant))
    \/ \E id \in 1..MaxEvents : \E variant \in {1, 2} :
          UpdateProduct(id, ProductBody(variant))
    \/ \E id \in 1..MaxEvents : DeleteProduct(id)
    \/ \E product_id \in 1..MaxEvents :
          CreateReview(product_id, ReviewBody(2 - (reviews_id_seq % 2)))
    \/ \E topic \in Topics : \E storage \in StorageOutcomes :
          (storage = "error" => ~faulted) /\ Consume(topic, storage)
    \/ \E topic \in Topics : \E offset \in 0..(offsets[topic] - 1) :
          Redeliver(topic, offset)

SpecPipeline == Init /\ [][NextPipeline]_vars

(***************************************************************************)
(* main(): the startup of the consumer, one step per await, and the        *)
(* consumer it starts.  A rejection that main does not catch ends in       *)
(* main().catch, which exits the process.                                  *)
(***************************************************************************)
\* const maxRetries = 30
maxRetries == 30

\* what an attempt to register meets: the status of the response of
\* Kafka Connect, or 0 when fetch rejects
RegistrationOutcomes == {0, 200, 201, 400, 409, 500}

\* response.ok
ResponseOk(status) == status >= 200 /\ status <= 299

\* only a created connector counts
RegisteredWhenCreated(status) == ResponseOk(status)

\* response.ok || response.status === 409
Registered(status) == ResponseOk(status) \/ status = 409

\* a failing SELECT 1 is logged and main goes on
CheckDatabaseLogged(ok) ==
    /\ main = "checking"
    /\ main' = "registering"
    /\ databaseChecked' = ok
    /\ UNCHANGED <<attempts, registration, subscribed, inflight>>
    /\ UNCHANGED <<gatewayVars, silent, consumerVars, calls, legacyVars, positionVars>>

\* await pool.query('SELECT 1'): on a rejection, process.exit(1)
CheckDatabase(ok) ==
    /\ main = "checking"
    /\ main' = IF ok THEN "registering" ELSE "exited"
    /\ databaseChecked' = ok
    /\ UNCHANGED <<attempts, registration, subscribed, inflight>>
    /\ UNCHANGED <<gatewayVars, silent, consumerVars, calls, legacyVars, positionVars>>

\* one turn of the loop of registerConnectors: the POST, then return true,
\* or the delay and i++
RegisterAttempt(status) ==
    /\ main = "registering"
    /\ attempts < maxRetries
    /\ IF Registered(status)
       THEN /\ registration' = "registered"
            /\ main' = "waiting"
            /\ attempts' = 0
       ELSE /\ attempts' = attempts + 1
            /\ UNCHANGED <<registration, main>>
    /\ UNCHANGED <<databaseChecked, subscribed, inflight>>
    /\ UNCHANGED <<gatewayVars, silent, consumerVars, calls, legacyVars, positionVars>>

\* the process exits when the attempts are used up
RegisterExhaustedExits ==
    /\ main = "registering"
    /\ attempts = maxRetries
    /\ registration' = "failed"
    /\ main' = "exited"
    /\ attempts' = 0
    /\ UNCHANGED <<databaseChecked, subscribed, inflight>>
    /\ UNCHANGED <<gatewayVars, silent, consumerVars, calls, legacyVars, positionVars>>

\* the loop of registerConnectors ends: return false, which main ignores
RegisterExhausted ==
    /\ main = "registering"
    /\ attempts = maxRetries
    /\ registration' = "failed"
    /\ main' = "waiting"
    /\ attempts' = 0
    /\ UNCHANGED <<databaseChecked, subscribed, inflight>>
    /\ UNCHANGED <<gatewayVars, silent, consumerVars, calls, legacyVars, positionVars>>

\* the 15 seconds main waits for the topics are over
Waited ==
    /\ main = "waiting"
    /\ main' = "connecting"
    /\ UNCHANGED <<attempts, registration, databaseChecked, subscribed, inflight>>
    /\ UNCHANGED <<gatewayVars, silent, consumerVars, calls, legacyVars, positionVars>>

\* await consumer.connect(): it resolves, or rejects once the retries of
\* the client are used up
Connect(ok) ==
    /\ main = "connecting"
    /\ main' = IF ok THEN "subscribing" ELSE "exited"
    /\ UNCHANGED <<attempts, registration, databaseChecked, subscribed, inflight>>
    /\ UNCHANGED <<gatewayVars, silent, consumerVars, calls, legacyVars, positionVars>>

\* await consumer.subscribe({ topics, fromBeginning: true }), then
\* consumer.run({ eachMessage })
Subscribe(ok) ==
    /\ main = "subscribing"
    /\ IF ok
       THEN /\ subscribed' = {PRODUCTS_TOPIC, REVIEWS_TOPIC}
            /\ main' = "running"
       ELSE /\ main' = "exited"
            /\ UNCHANGED subscribed
    /\ UNCHANGED <<attempts, registration, databaseChecked, inflight>>
    /\ UNCHANGED <<gatewayVars, silent, consumerVars, calls, legacyVars, positionVars>>

\* the handler sends its statement and goes on without its result
FiresQuery == FALSE

\* await pool.query(...) in the handlers, await processProductMessage(message)
\* and await processReviewMessage(message) in eachMessage: the promise of
\* eachMessage is pending while the statement is
AwaitsQuery == TRUE

\* the next event of a topic
NextEvent(topic) == stream[topic][offsets[topic] + 1]

\* the runner calls eachMessage for the next event of a topic, once the
\* promise of its last call is resolved; the handler runs up to its await
Dispatch(topic) ==
    /\ main = "running" /\ topic \in subscribed
    /\ consumerRunning
    /\ AwaitsQuery => inflight = {}
    /\ offsets[topic] < Len(stream[topic])
    /\ IF HandlingTable[topic][NextEvent(topic)].kind \in {"upsert", "delete"}
       THEN /\ inflight' = inflight \cup
                    {[topic |-> topic, at |-> offsets[topic] + 1]}
            /\ offsets' = [offsets EXCEPT ![topic] = IF AwaitsQuery THEN @ ELSE @ + 1]
            /\ UNCHANGED consumerVars
       ELSE /\ eachMessage(topic, NextEvent(topic), "ok")
            /\ offsets' = [offsets EXCEPT ![topic] = IF consumerRunning' THEN @ + 1 ELSE @]
            /\ UNCHANGED inflight
    /\ reached' = [reached EXCEPT
                      ![topic] = IF offsets'[topic] > @ THEN offsets'[topic] ELSE @]
    /\ UNCHANGED <<faulted, main, attempts, registration, databaseChecked, subscribed>>
    /\ UNCHANGED <<gatewayVars, silent, calls, legacyVars>>

\* the store answers a statement: the rest of the handler, and eachMessage
\* returns
Settle(write, storage) ==
    /\ write \in inflight
    /\ eachMessage(write.topic, stream[write.topic][write.at], storage)
    /\ inflight' = inflight \ {write}
    /\ faulted' = (faulted \/ storage = "error")
    /\ offsets' = [offsets EXCEPT
                      ![write.topic] = IF AwaitsQuery /\ consumerRunning'
                                       THEN @ + 1 ELSE @]
    /\ reached' = [reached EXCEPT
                      ![write.topic] = IF offsets'[write.topic] > @
                                       THEN offsets'[write.topic] ELSE @]
    /\ UNCHANGED <<main, attempts, registration, databaseChecked, subscribed>>
    /\ UNCHANGED <<gatewayVars, silent, calls, legacyVars>>

\* the consumer from the call of main on, while the legacy store changes
InitMain ==
    /\ GatewayInit
    /\ ConsumerInit
    /\ PipelineInit
    /\ Starting
    /\ quote = NoQuote
    /\ decoding = NoDecoding
    /\ traced = FALSE

NextMain ==
    \/ \E ok \in BOOLEAN : CheckDatabase(ok)
    \/ \E status \in RegistrationOutcomes : RegisterAttempt(status)
    \/ RegisterExhausted
    \/ Waited
    \/ \E ok \in BOOLEAN : Connect(ok)
    \/ \E ok \in BOOLEAN : Subscribe(ok)
    \/ \E variant \in {1, 2} : CreateProduct(ProductBody(variant))
    \/ \E id \in 1..MaxEvents : \E variant \in {1, 2} :
          UpdateProduct(id, ProductBody(variant))
    \/ \E id \in 1..MaxEvents : DeleteProduct(id)
    \/ \E product_id \in 1..MaxEvents :
          CreateReview(product_id, ReviewBody(2 - (reviews_id_seq % 2)))
    \/ \E topic \in Topics : Dispatch(topic)
    \/ \E write \in inflight : \E storage \in StorageOutcomes :
          (storage = "error" => ~faulted) /\ Settle(write, storage)

SpecMain == InitMain /\ [][NextMain]_vars

(***************************************************************************)
(* decodeDecimal on its own, and the product handler in front of prices    *)
(* that are no decimal text.                                               *)
(***************************************************************************)
\* the base64 text of one to three bytes, as the connector writes the bytes
\* of a decimal
Base64Of(bytes) ==
    LET n == Len(bytes)
        v == bytes[1] * 65536 + (IF n >= 2 THEN bytes[2] * 256 ELSE 0)
                + (IF n >= 3 THEN bytes[3] ELSE 0)
        c(k) == Base64Chars[((v \div Pow2(18 - 6 * k)) % 64) + 1]
    IN  <<c(0), c(1)>> \o (IF n >= 2 THEN <<c(2)>> ELSE <<"=">>)
                       \o (IF n >= 3 THEN <<c(3)>> ELSE <<"=">>)

\* the bytes decodeDecimal is given in base64: every single byte, and
\* -100, 100, 1234, -32768, 32767, -10387 and 123456
ByteInputs ==
    {<<b>> : b \in 0..255}
    \cup {<<255, 156>>, <<0, 100>>, <<4, 210>>, <<128, 0>>, <<127, 255>>,
          <<215, 109>>, <<1, 226, 64>>}

\* numbers and decimal text
PlainInputs ==
    {Num(1234, -2), Num(-5, 0), Str(<<"1", "2", ".", "3", "4">>),
     Str(<<"-", "1", ".", "0", "0">>), Str(<<"1", "0", "0">>)}

DecodeInputs ==
    {[value |-> Str(Base64Of(bytes)), bytes |-> bytes] : bytes \in ByteInputs}
    \cup {[value |-> value, bytes |-> <<>>] : value \in PlainInputs}

\* a call of decodeDecimal(value, 2)
Decode ==
    /\ decoding.result = Null
    /\ decoding' = [decoding EXCEPT !.result = decodeDecimal(decoding.value, 2)]
    /\ UNCHANGED <<gatewayVars, silent, consumerVars, pipelineVars, quote, traced>>

InitDecode ==
    /\ GatewayInit
    /\ ConsumerInit
    /\ PipelineInit
    /\ Started
    /\ quote = NoQuote
    /\ traced = FALSE
    /\ \E input \in DecodeInputs :
          decoding = [value |-> input.value, bytes |-> input.bytes,
                      scale |-> 2, result |-> Null]

NextDecode == Decode

SpecDecode == InitDecode /\ [][NextDecode]_vars

NextDegraded ==
    \E message \in DegradedMessages
                    \cup {ChangeEvent("c", Null, ProductImage(1, 1)),
                          ChangeEvent("d", KeyImage(1), Null)} :
        \E storage \in StorageOutcomes : Receive(PRODUCTS_TOPIC, message, storage)

SpecDegraded == Init /\ [][NextDegraded]_vars

(***************************************************************************)
(* calculateDynamicPrice on its own.                                       *)
(***************************************************************************)
PriceInputs ==
    {Num(0, 0), Num(35, -2), Num(10, 0), Num(1010, -2), Num(1999, -2)}
StockInputs ==
    {Num(0, 0), Num(5, 0), Num(9, 0), Num(10, 0), Num(24, 0), Num(25, 0),
     Num(49, 0), Num(50, 0), Num(100, 0), Num(200, 0), Num(201, 0), Num(300, 0)}

Calculate ==
    /\ quote.result = Null
    /\ quote' = [quote EXCEPT
                    !.result = calculateDynamicPrice(quote.basePrice, quote.stock)]
    /\ UNCHANGED <<gatewayVars, silent, consumerVars, pipelineVars, decoding>>
    /\ UNCHANGED traced

NextConsumer ==
    \E topic \in Topics : \E message \in Messages(topic) :
        \E storage \in StorageOutcomes : Receive(topic, message, storage)

SpecConsumer == Init /\ [][NextConsumer]_vars

InitPricing ==
    /\ GatewayInit
    /\ ConsumerInit
    /\ PipelineInit
    /\ Started
    /\ decoding = NoDecoding
    /\ traced = FALSE
    /\ \E basePrice \in PriceInputs, stock \in StockInputs :
          quote = [basePrice |-> basePrice, stock |-> stock, result |-> Null]

NextPricing == Calculate

SpecPricing == InitPricing /\ [][NextPricing]_vars

(***************************************************************************)
(* Properties of the traffic router.                                       *)
(***************************************************************************)
ReadRequests == {r \in Requests : r.handler \in ReadHandlers}
WriteRequests == {r \in Requests : r.handler \in WriteHandlers}

\* the requests of the next state
RequestsNext == BagToSet(reqs')

\* the step adds the one request r to the requests
Adds(r) == reqs' = reqs (+) SetToBag({r})

\* r >= weight for a draw r = m * 10^e, e <= 0, and an integer weight
DrawAtLeast(random, weight) ==
    ~weight.nan /\ random.m >= weight.m * Pow10(-random.e)

\* C1: a weight-routed read with draw r sends its primary fetch to the legacy
\* store if r >= trafficWeight and to the replica store otherwise; under weight
\* 0 every read picks the legacy store, under weight 100 the replica store.
C1_PrimaryFollowsDraw ==
    [][\A route \in ReadRoutes, random \in RandomDraws :
          ReadStart(route, random) =>
             \E r \in RequestsNext :
                /\ Adds(r)
                /\ Len(r.calls) = 1
                /\ r.calls[1].to = IF DrawAtLeast(random, trafficWeight)
                                   THEN MONOLITH ELSE MICROSERVICE
                /\ (trafficWeight = Num(0, 0) => r.calls[1].to = MONOLITH)
                /\ (trafficWeight = Num(100, 0) => r.calls[1].to = MICROSERVICE)]_vars

\* a read whose primary fetch is pending at the replica under weight 30
C1_Witness ==
    /\ trafficWeight = Num(30, 0)
    /\ stats.lastUpdate = "start"
    /\ stats.totalRequests = 1
    /\ stats.microserviceRequests = 1
    /\ \E r \in ReadRequests : r.pc = "primary" /\ r.calls[1].to = MICROSERVICE

\* C2: trafficWeight is an integer in [0,100] in every reachable state,
\* whatever values POST /admin/weight was called with.
C2_WeightIsIntegerInRange ==
    /\ ~trafficWeight.nan
    /\ trafficWeight.e = 0
    /\ trafficWeight.m \in 0..100

\* C3: a POST /admin/weight answered 400 (as it is for -1, 101 and a missing
\* weight) leaves trafficWeight and every counter of stats as they were.
C3_RejectedWeightChangesNothing ==
    [][\A weight \in WeightInputs :
          SetWeight(weight) =>
             /\ weight \in {Undefined, Num(-1, 0), Num(101, 0)}
                   => adminRes'.status = 400
             /\ adminRes'.status = 400
                   => trafficWeight' = trafficWeight /\ stats' = stats]_vars

\* the last POST /admin/weight was rejected, with a weight and counters that
\* are no longer the initial ones
C3_Witness ==
    /\ adminRes.status = 400
    /\ trafficWeight = Num(30, 0)
    /\ stats.totalRequests = 2

\* the requests r of the bag with P(r), counted with their copies
CountOf(P(_)) ==
    BagCardinality([r \in {x \in Requests : P(x)} |-> reqs[r]])
CountOfNext(P(_)) ==
    BagCardinality([r \in {x \in RequestsNext : P(x)} |-> reqs'[r]])

Other(backend) == IF backend = MONOLITH THEN MICROSERVICE ELSE MONOLITH

\* request r has gone past its primary fetch
PastPrimary(r) == r.pc \in {"fallback", "done"}

\* C4: a read makes a second fetch exactly when its primary fetch failed, and
\* that second fetch goes to the other backend: at most two fetches, never two
\* to the same backend.
C4_OneFallbackToTheOther ==
    \A r \in ReadRequests :
       /\ Len(r.calls) <= 2
       /\ (PastPrimary(r) /\ r.calls[1].result = "ok") => Len(r.calls) = 1
       /\ (PastPrimary(r) /\ r.calls[1].result = "error")
             => Len(r.calls) = 2 /\ r.calls[2].to = Other(r.calls[1].to)

AllFailed(r) == \A k \in 1..Len(r.calls) : r.calls[k].result = "error"

\* C5: a read whose fetches all failed answers 503; a failing fetch neither
\* stops the gateway nor changes trafficWeight.
C5_BothFailedIs503 ==
    [][/\ running'
       /\ \A r \in RequestsNext :
             (r.handler \in ReadHandlers /\ r.pc = "done" /\ AllFailed(r))
                => r.status = 503 /\ r.xSource = "none"
       /\ (\E r \in Requests : PrimaryFail(r) \/ FallbackFail(r))
             => trafficWeight' = trafficWeight]_vars

\* a read answered 503 after two failed fetches, and another request served
C5_Witness ==
    /\ running
    /\ \E r \in ReadRequests :
          r.pc = "done" /\ Len(r.calls) = 2 /\ AllFailed(r) /\ r.status = 503
    /\ \E r \in ReadRequests : r.pc = "done" /\ r.status = 200

IsRead(r) == r.handler \in ReadHandlers
IsProductWrite(r) == r.handler = "monolithProductProxy"

\* C6: a read adds 1 to totalRequests and 1 to the counter of its primary
\* backend when it starts and nothing later, whatever its fetches do and however
\* reads interleave; without a reset totalRequests is the number of reads (plus
\* the proxied product writes, which are counted too).
C6_EachReadCountedOnce ==
    [][/\ \A route \in ReadRoutes, random \in RandomDraws :
             ReadStart(route, random) =>
                \E r \in RequestsNext :
                   /\ Adds(r)
                   /\ stats'.totalRequests = stats.totalRequests + 1
                   /\ stats'.monolithRequests = stats.monolithRequests
                         + (IF r.calls[1].to = MONOLITH THEN 1 ELSE 0)
                   /\ stats'.microserviceRequests = stats.microserviceRequests
                         + (IF r.calls[1].to = MICROSERVICE THEN 1 ELSE 0)
       /\ (\E r \in ReadRequests, r2 \in RequestsNext : r2 # r /\ Continue(r, r2))
             => stats' = stats
       /\ stats'.lastUpdate = "start"
             => stats'.totalRequests = CountOfNext(IsRead) + CountOfNext(IsProductWrite)
      ]_vars

\* two reads suspended on their fetches at the same time, both counted
C6_Witness ==
    /\ stats.lastUpdate = "start"
    /\ stats.totalRequests = 2
    /\ stats.monolithRequests = 1
    /\ stats.microserviceRequests = 1
    /\ CountOf(IsRead) = 2
    /\ \A r \in Requests : r.pc \in {"primary", "fallback"}
    /\ \E r \in Requests : r.pc = "fallback"

\* only GET /api/products reads, all answered, no reset; every fetch from the
\* legacy store succeeded and every fetch from the replica store failed
LegacyUpReplicaDown ==
    /\ stats.lastUpdate = "start"
    /\ reqs # EmptyBag
    /\ \A r \in Requests :
          /\ r.handler = "list"
          /\ r.pc = "done"
          /\ \A k \in 1..Len(r.calls) :
                r.calls[k].result = IF r.calls[k].to = MONOLITH THEN "ok" ELSE "error"

ChoseReplica(r) == r.calls[1].to = MICROSERVICE

\* C7 as stated: after N reads of which K first chose the replica, toLegacy = N
\* and toReplica = K (here with the weight of the spec's example, 30, in force).
C7_FallbackCountedTwice ==
    (LegacyUpReplicaDown /\ trafficWeight = Num(30, 0)) =>
       /\ stats.monolithRequests = BagCardinality(reqs)
       /\ stats.microserviceRequests = CountOf(ChoseReplica)

\* C7 amended: after N reads of which K first chose the replica, toLegacy = N - K
\* and toReplica = K; a read served by the fallback is counted for its primary
\* backend only.
C7_FallbackNotCounted ==
    LegacyUpReplicaDown =>
       /\ stats.monolithRequests = BagCardinality(reqs) - CountOf(ChoseReplica)
       /\ stats.microserviceRequests = CountOf(ChoseReplica)

\* reads answered by the legacy store, some of them through the fallback
C7_Witness ==
    /\ LegacyUpReplicaDown
    /\ CountOf(ChoseReplica) >= 1
    /\ CountOf(ChoseReplica) < BagCardinality(reqs)
    /\ \A r \in Requests : r.status = 200 /\ r.xSource = MONOLITH

\* C8: a request of monolithProductProxy or authProxy makes one fetch, from the
\* legacy store, whatever trafficWeight is and whether or not the fetch fails.
C8_WritesPinnedToLegacy ==
    \A r \in WriteRequests :
       /\ Len(r.calls) = 1
       /\ r.calls[1].to = MONOLITH
       /\ r.xSource # MICROSERVICE

\* under weight 100, a failed product write and a failed cart/auth request
C8_Witness ==
    /\ trafficWeight = Num(100, 0)
    /\ \E r \in WriteRequests :
          r.handler = "monolithProductProxy" /\ r.pc = "done" /\ r.status = 503
    /\ \E r \in WriteRequests :
          r.handler = "authProxy" /\ r.pc = "done" /\ r.calls[1].result = "error"

\* C9: a read's response other than 503 names in X-Source the backend whose
\* fetch succeeded, and has X-Fallback exactly when that was the second fetch.
C9_TaggedWithServingBackend ==
    \A r \in ReadRequests :
       (r.pc = "done" /\ r.status # 503) =>
          /\ r.calls[Len(r.calls)].result = "ok"
          /\ r.xSource = r.calls[Len(r.calls)].to
          /\ r.xFallback <=> (Len(r.calls) = 2)

\* the fallback of a read, from its handler and its primary backend alone
FixedFallback(handler, primary) ==
    IF handler = "list" THEN Other(primary) ELSE MONOLITH

\* C10: POST /admin/weight leaves the requests in flight as they are, and a
\* read keeps its primary backend and takes its fallback backend from the
\* choice it made when it drew its random value; a starting read uses the
\* weight in force at that moment.
C10_WeightChangeSparesReadsInFlight ==
    [][/\ \A weight \in WeightInputs : SetWeight(weight) => reqs' = reqs
       /\ \A r \in ReadRequests, r2 \in RequestsNext :
             (r2 # r /\ Continue(r, r2)) =>
                /\ r2.handler = r.handler
                /\ r2.useMonolith = r.useMonolith
                /\ r2.calls[1].to = r.calls[1].to
                /\ Len(r2.calls) = 2
                      => r2.calls[2].to = FixedFallback(r.handler, r.calls[1].to)
       /\ \A route \in ReadRoutes, random \in RandomDraws :
             ReadStart(route, random) =>
                \E r \in RequestsNext :
                   Adds(r) /\ r.useMonolith = DrawAtLeast(random, trafficWeight)
      ]_vars

\* weight 100 is in force, and a read that chose the legacy store before that
\* is on its fallback fetch from the replica store
C10_Witness ==
    /\ trafficWeight = Num(100, 0)
    /\ adminRes.status = 200
    /\ \E r \in ReadRequests :
          /\ r.handler = "list"
          /\ r.pc = "fallback"
          /\ r.useMonolith
          /\ r.calls[1].to = MONOLITH
          /\ r.calls[2].to = MICROSERVICE

(***************************************************************************)
(* Reads in front of a backend that never answers.                         *)
(***************************************************************************)
\* what the handler of request r can do next
Resumes(r) ==
    \/ \E status \in BackendStatuses :
          Answers(r) /\ (PrimaryOk(r, status) \/ FallbackOk(r, status))
    \/ Answers(r) /\ (PrimaryFail(r) \/ FallbackFail(r))
    \/ TimedOut(r)

\* C11: every weight-routed read eventually returns a response, even when a
\* backend accepts the request and never answers: each backend call of the
\* read path is bounded by a timeout.  Stated on finite runs: a read that
\* has not answered yet can always take a further step of its handler (its
\* fetch settles or times out).
C11_ReadsAlwaysReturn ==
    \A r \in ReadRequests : r.pc # "done" => ENABLED Resumes(r)

(***************************************************************************)
(* POST /admin/reset-stats and the counters.                               *)
(***************************************************************************)
Counters == {"totalRequests", "monolithRequests", "microserviceRequests"}

\* C12: resetStats sets total, toLegacy and toReplica to 0 and leaves
\* trafficWeight unchanged; no other operation lowers a counter, so between
\* two resets no counter ever decreases.
C12_OnlyResetLowersCounters ==
    [][/\ ResetStats =>
            /\ \A c \in Counters : stats'[c] = 0
            /\ trafficWeight' = trafficWeight
       /\ (\E c \in Counters : stats'[c] < stats[c]) => ResetStats]_vars

\* a reset that cleared counted requests while the weight was 30
C12_Witness ==
    /\ stats.lastUpdate = "reset"
    /\ stats.totalRequests = 0
    /\ trafficWeight = Num(30, 0)
    /\ \E r \in ReadRequests : r.pc = "done"
    /\ \E r \in WriteRequests : r.handler = "monolithProductProxy"

(***************************************************************************)
(* Properties of the change-event consumer.                                *)
(***************************************************************************)
\* the replica table of a topic
Table(topic) ==
    IF topic = PRODUCTS_TOPIC THEN pricing_inventory ELSE reviews_replica

\* a text column mirrors a field: the same text, or nothing for nothing
\* (a missing or null text is kept as '' or NULL)
SameText(column, field) ==
    \/ column = field
    \/ {column, field} \subseteq {Null, Undefined, Str(<<>>)}

\* an integer field, and a decimal field in hundredths
Whole(field) == field.m * Pow10(field.e)
Hundredths(field) == ToNumber(field).m * Pow10(ToNumber(field).e + 2)

\* the row holds the mirrored values of a row image
ProductMirrors(row, image) ==
    /\ row.id = Whole(Get(image, "id"))
    /\ SameText(row.name, Get(image, "name"))
    /\ SameText(row.description, Get(image, "description"))
    /\ row.price = Hundredths(Get(image, "price"))
    /\ row.stock = Whole(Get(image, "stock"))
    /\ SameText(row.image_url, Get(image, "image_url"))
    /\ SameText(row.category, Get(image, "category"))

ReviewMirrors(row, image) ==
    /\ row.id = Whole(Get(image, "id"))
    /\ row.product_id = Whole(Get(image, "product_id"))
    /\ row.user_id = Whole(Get(image, "user_id"))
    /\ SameText(row.username, Get(image, "username"))
    /\ row.rating = Whole(Get(image, "rating"))
    /\ SameText(row.comment, Get(image, "comment"))

Mirrors(topic, row, image) ==
    IF topic = PRODUCTS_TOPIC THEN ProductMirrors(row, image)
    ELSE ReviewMirrors(row, image)

\* the rows of a table with id k
RowsOf(table, k) == {row \in table : row.id = k}

\* the handling before last (n = 1) or the last one (n = 2) was this
\* message of this topic, with this outcome
Was(n, topic, message, outcome) ==
    handled[n] = [topic |-> topic, message |-> message, outcome |-> outcome]

\* C13: after any sequence of processed messages (any order, duplicates,
\* storage failures in between), for every id k the replica row for k holds
\* the mirrored values of the last successfully applied create, update or
\* snapshot-read event for k, and there is no row for k if the last applied
\* event for k was a delete or none was applied; events for other ids and
\* of the other topic never change it, and nothing is compared, so an older
\* event processed later overwrites a newer one.
C13_RowIsLastAppliedEvent ==
    \A topic \in Topics :
        /\ {row.id : row \in Table(topic)} = DOMAIN applied[topic]
        /\ \A k \in DOMAIN applied[topic] :
              /\ Cardinality(RowsOf(Table(topic), k)) = 1
              /\ \A row \in RowsOf(Table(topic), k) :
                    Mirrors(topic, row, applied[topic][k])

\* the update of product 1 was applied and then its create, which is what
\* the row holds, next to an untouched row of product 2 and a review
C13_Witness ==
    /\ Was(1, PRODUCTS_TOPIC, ChangeEvent("u", Null, ProductImage(1, 2)), "upserted")
    /\ Was(2, PRODUCTS_TOPIC, ChangeEvent("c", Null, ProductImage(1, 1)), "upserted")
    /\ \E row \in pricing_inventory : row.id = 1 /\ row.name = Str(<<"a">>)
    /\ \E row \in pricing_inventory : row.id = 2
    /\ reviews_replica # {}

(***************************************************************************)
(* Create, then update.                                                    *)
(***************************************************************************)
\* the last two handlings were a create of id k and an update of k
CreatedThenUpdated(topic, k) ==
    /\ handled[1].topic = topic /\ handled[2].topic = topic
    /\ handled[1].outcome = "upserted" /\ handled[2].outcome # "error"
    /\ Get(Get(handled[1].message.value.json, "payload"), "op") = Str(<<"c">>)
    /\ Get(Get(handled[2].message.value.json, "payload"), "op") = Str(<<"u">>)
    /\ AfterOf(handled[2].message) # Null
    /\ Whole(Get(AfterOf(handled[1].message), "id")) = k
    /\ Whole(Get(AfterOf(handled[2].message), "id")) = k

\* C14: applying a create event for an id k and then an update event for
\* the same k leaves exactly one replica row with id k, and every mirrored
\* and derived column of that row holds the update's values: the row is
\* the row the update makes, none of the create's values survive.
C14_UpdateReplacesCreate ==
    \A topic \in Topics : \A k \in ProductIds \cup ReviewIds :
        CreatedThenUpdated(topic, k) =>
            /\ Cardinality(RowsOf(Table(topic), k)) = 1
            /\ \A row \in RowsOf(Table(topic), k) :
                  /\ Mirrors(topic, row, AfterOf(handled[2].message))
                  /\ HandlingTable[topic][handled[2].message].kind = "upsert"
                  /\ row = HandlingTable[topic][handled[2].message].row

\* product 1 was created cheap and scarce and then updated to dear and
\* plentiful: one row, priced 10.00 and 9.00 with factor 0.90
C14_Witness ==
    /\ Was(1, PRODUCTS_TOPIC, ChangeEvent("c", Null, ProductImage(1, 1)), "upserted")
    /\ Was(2, PRODUCTS_TOPIC, ChangeEvent("u", Null, ProductImage(1, 2)), "upserted")
    /\ \E row \in pricing_inventory :
          /\ row.id = 1 /\ row.name = Str(<<"b">>) /\ row.price = 1000
          /\ row.stock = 300 /\ row.dynamic_price = 900 /\ row.demand_score = 90

(***************************************************************************)
(* The same event twice.                                                   *)
(***************************************************************************)
\* C15: applying the same create, update, snapshot-read or delete event
\* twice in a row leaves the replica in the state the first application
\* left it in, for the product and the review topic alike: a step that
\* handles again, with the same outcome, the event that was just applied
\* changes no table.
C15_SecondApplicationChangesNothing ==
    [][(/\ handled[2].outcome \in {"upserted", "deleted"}
        /\ handled'[1] = handled[2]
        /\ handled'[2] = handled[2])
       => UNCHANGED <<pricing_inventory, reviews_replica>>]_vars

\* the create of product 1 was applied twice in a row, and there is its row
C15_Witness ==
    /\ Was(1, PRODUCTS_TOPIC, ChangeEvent("c", Null, ProductImage(1, 1)), "upserted")
    /\ Was(2, PRODUCTS_TOPIC, ChangeEvent("c", Null, ProductImage(1, 1)), "upserted")
    /\ Cardinality(RowsOf(pricing_inventory, 1)) = 1

(***************************************************************************)
(* Deleting what is not there.                                             *)
(***************************************************************************)
\* the delete event of the row with id k
DeleteEvent(k) == ChangeEvent("d", KeyImage(k), Null)

\* handling the delete event of k while the store answers ends normally
\* and leaves both tables as they are
DeletesNothing(topic, k) ==
    /\ Receive(topic, DeleteEvent(k), "ok")
    /\ handled'[2].outcome = "deleted"
    /\ consumerRunning'
    /\ UNCHANGED <<pricing_inventory, reviews_replica>>

\* C16: applying a delete event for an id that has no replica row is a
\* no-op: no error is raised, no row is created, every existing row is
\* unchanged, and the consumer goes on to the next message.
C16_DeleteOfAbsentIdIsNoOp ==
    \A topic \in Topics : \A k \in ProductIds \cup ReviewIds :
        (/\ consumerRunning
         /\ DeleteEvent(k) \in Messages(topic)
         /\ RowsOf(Table(topic), k) = {})
        => ENABLED DeletesNothing(topic, k)

\* the first message of all was the delete event of product 1
C16_Witness ==
    /\ handled[1].outcome = "none"
    /\ Was(2, PRODUCTS_TOPIC, DeleteEvent(1), "deleted")
    /\ pricing_inventory = {} /\ reviews_replica = {}
    /\ consumerRunning

(***************************************************************************)
(* The derived columns.                                                    *)
(***************************************************************************)
\* the factor of a stock level, in hundredths
DemandFactor(stock) ==
    IF stock < 10 THEN 130
    ELSE IF stock < 25 THEN 115
    ELSE IF stock < 50 THEN 105
    ELSE IF stock <= 200 THEN 100
    ELSE 90

\* cents is the product of a price in cents and a factor in hundredths,
\* rounded to a whole number of cents: a half goes up, or to the even cent
Rounded(cents, price, factor) ==
    \/ cents = (price * factor + 50) \div 100
    \/ /\ (price * factor) % 100 = 50
       /\ cents = (price * factor) \div 100
       /\ cents % 2 = 0

\* the derived columns of a row follow from its price and stock
Derived(row) ==
    /\ row.demand_score = DemandFactor(row.stock)
    /\ Rounded(row.dynamic_price, row.price, DemandFactor(row.stock))

\* C17: after any sequence of applied product events, every row of the
\* replica product table has dynamic_price = price x demandFactor(stock)
\* rounded to 2 decimals and demand_score = demandFactor(stock), for the
\* price and stock stored in that same row.
C17_DerivedColumnsFollowMirrored ==
    \A row \in pricing_inventory : Derived(row)

(***************************************************************************)
(* calculateDynamicPrice.                                                  *)
(***************************************************************************)
\* the call of quote returned these hundredths for these arguments
Quoted(price, stock, dynamicPrice, demandScore) ==
    (Hundredths(quote.basePrice) = price /\ Whole(quote.stock) = stock)
    => /\ Hundredths(quote.result.dynamicPrice) = dynamicPrice
       /\ Hundredths(quote.result.demandScore) = demandScore

\* C18: the demand factor is 1.30 for stock < 10, 1.15 for 10 <= stock <
\* 25, 1.05 for 25 <= stock < 50, 1.00 for 50 <= stock <= 200 and 0.90 for
\* stock > 200; calculateDynamicPrice(price, stock) returns price x factor
\* rounded to 2 decimals together with the factor: (10.00, 5) gives (13.00,
\* 1.30), (10.00, 300) gives (9.00, 0.90), (10.00, 100) gives (10.00, 1.00).
C18_PriceTimesDemandFactor ==
    quote.result # Null =>
        /\ Hundredths(quote.result.demandScore) = DemandFactor(Whole(quote.stock))
        /\ Rounded(Hundredths(quote.result.dynamicPrice),
                   Hundredths(quote.basePrice),
                   DemandFactor(Whole(quote.stock)))
        /\ Quoted(1000, 5, 1300, 130)
        /\ Quoted(1000, 300, 900, 90)
        /\ Quoted(1000, 100, 1000, 100)

(***************************************************************************)
(* Errors while a message is handled.                                      *)
(***************************************************************************)
\* C19: if field extraction or the replica write throws while a message is
\* processed, the replica stays exactly as it was before that message, the
\* error does not escape the message handler, the message is not retried
\* and the consumer goes on to the next message: it is past the message.
C19_ErrorDropsTheMessage ==
    [][\A topic \in Topics : \A storage \in StorageOutcomes :
          (Consume(topic, storage) /\ handled'[2].outcome = "error")
          => /\ UNCHANGED <<pricing_inventory, reviews_replica>>
             /\ consumerRunning'
             /\ offsets' = [offsets EXCEPT ![topic] = @ + 1]]_vars

\* the store rejected the upsert of the only product: the stream is read
\* to its end, the legacy store has the product, the replica has not
C19_Witness ==
    /\ faulted
    /\ handled[2].topic = PRODUCTS_TOPIC /\ handled[2].outcome = "error"
    /\ handled[2].message # Tombstone
    /\ offsets[PRODUCTS_TOPIC] = Len(stream[PRODUCTS_TOPIC])
    /\ products # {} /\ pricing_inventory = {}

(***************************************************************************)
(* The replica against the legacy store.                                   *)
(***************************************************************************)
\* the consumer is past every event published
Drained == \A topic \in Topics : offsets[topic] = Len(stream[topic])

\* a replica row holds the mirrored values of a legacy row
MirrorsProduct(row, legacy) ==
    /\ row.id = legacy.id
    /\ SameText(row.name, legacy.name)
    /\ SameText(row.description, legacy.description)
    /\ row.price = legacy.price
    /\ row.stock = legacy.stock
    /\ SameText(row.image_url, legacy.image_url)
    /\ SameText(row.category, legacy.category)

MirrorsReview(row, legacy) ==
    /\ row.id = legacy.id
    /\ row.product_id = legacy.product_id
    /\ row.user_id = legacy.user_id
    /\ SameText(row.username, legacy.username)
    /\ row.rating = legacy.rating
    /\ SameText(row.comment, legacy.comment)

C21_UnhandledMessagesAreNoOps ==
    [][(handled'[1] = handled[2] /\ handled'[2].message \in UnhandledMessages)
       => /\ UNCHANGED <<pricing_inventory, reviews_replica>>
          /\ handled'[2].outcome \in {"skipped", "ignored"}
          /\ consumerRunning']_vars

\* with rows in both tables, the product handler skipped an envelope
\* without payload and the review handler ignored a delete without before
C21_Witness ==
    /\ Was(1, PRODUCTS_TOPIC, Json(Object([schema |-> Null])), "skipped")
    /\ Was(2, REVIEWS_TOPIC, ChangeEvent("d", Null, Null), "ignored")
    /\ pricing_inventory # {} /\ reviews_replica # {}
    /\ consumerRunning

(***************************************************************************)
(* Properties of the startup of the consumer.                              *)
(***************************************************************************)
\* every await of registerConnectors settles: fetch resolves or rejects, the
\* timer of the delay fires
SpecMainLive ==
    /\ SpecMain
    /\ WF_vars(\E status \in RegistrationOutcomes : RegisterAttempt(status))
    /\ WF_vars(RegisterExhausted)

\* a step of registerConnectors, by the response its attempt met
Attempted(status) ==
    RegisterAttempt(status) =>
        IF status \in {200, 201, 409}
        THEN registration' = "registered" /\ main' = "waiting"
        ELSE /\ registration' = "none" /\ main' = "registering"
             /\ attempts' = attempts + 1

\* C22: registerConnectors ends after at most 30 attempts: it returns true
\* at the first attempt answered 2xx or 409 and attempts nothing after
\* that; on any other outcome (fetch rejects, another status) it tries
\* again, and after 30 attempts without success it returns false.
C22_RegisterEndsWithin30Attempts ==
    /\ [][/\ \A status \in RegistrationOutcomes : Attempted(status)
          /\ attempts' <= maxRetries
          /\ registration' = "failed" /\ registration = "none"
                => attempts = maxRetries
          /\ main # "registering" => attempts' = 0 /\ registration' = registration
         ]_vars
    /\ (main = "registering") ~> (main = "waiting")

\* thirty attempts failed and registerConnectors returned false
C22_Witness ==
    /\ registration = "failed"
    /\ main = "waiting"
    /\ attempts = 0

\* the table of a topic after its first n events, handled in their order
\* with a store that carries every statement out
RECURSIVE Replica(_, _)
Replica(topic, n) ==
    IF n = 0 THEN {}
    ELSE With(HandlingTable[topic][stream[topic][n]], LAMBDA st :
             Written(Replica(topic, n - 1), st, Outcome(st, "ok")))

\* main goes on from where it is
GoesOn ==
    /\ main = "waiting" => ENABLED Waited
    /\ main = "connecting" => ENABLED Connect(TRUE)
    /\ main = "subscribing" => ENABLED Subscribe(TRUE)
    /\ main = "running" =>
          /\ subscribed = {PRODUCTS_TOPIC, REVIEWS_TOPIC}
          /\ \A topic \in Topics :
                (inflight = {} /\ offsets[topic] < Len(stream[topic]))
                => ENABLED Dispatch(topic)

\* C23: when registerConnectors has used up its attempts the process does
\* not exit and the pipeline is not disabled: main goes on to connect and
\* to subscribe to both topics, and the events that arrive are applied as
\* the handlers apply them after a successful registration: while no
\* statement was rejected, each table is what handling the events read so
\* far, in their order, makes of an empty table.
C23_ExhaustedRegistrationGoesOn ==
    /\ [][(registration = "none" /\ registration' = "failed")
          => main' = "waiting"]_vars
    /\ [](registration = "failed" =>
            /\ GoesOn
            /\ (~faulted /\ inflight = {}) =>
                  \A topic \in Topics :
                     Table(topic) = Replica(topic, offsets[topic]))

\* registration failed thirty times, and the consumer runs and has applied
\* a product and a review
C23_Witness ==
    /\ registration = "failed"
    /\ main = "running"
    /\ pricing_inventory # {} /\ reviews_replica # {}
    /\ offsets[PRODUCTS_TOPIC] = 1 /\ offsets[REVIEWS_TOPIC] = 1

(***************************************************************************)
(* One message at a time.                                                  *)
(***************************************************************************)
\* the statement in flight is the one of the next event of its topic
IsNext(write) == write.at = offsets[write.topic] + 1

\* C26: the consumer handles at most one message at a time: while the
\* statement of a message is in flight no other message of either topic
\* is handed to a handler, so two statements are never in flight
\* together, and a table changes only when the statement of the next
\* event of its topic settles: the writes are applied in the order the
\* events were delivered in.
C26_OneMessageAtATime ==
    /\ [](/\ Cardinality(inflight) <= 1
          /\ \A write \in inflight : IsNext(write)
          /\ inflight # {} => \A topic \in Topics : ~ENABLED Dispatch(topic))
    /\ [][/\ pricing_inventory' # pricing_inventory
             => /\ inflight = {[topic |-> PRODUCTS_TOPIC,
                                at |-> offsets[PRODUCTS_TOPIC] + 1]}
                /\ inflight' = {}
          /\ reviews_replica' # reviews_replica
             => /\ inflight = {[topic |-> REVIEWS_TOPIC,
                                at |-> offsets[REVIEWS_TOPIC] + 1]}
                /\ inflight' = {}
         ]_vars

\* the upsert of the create of product 1 is in flight while its update and
\* a review of it wait in the topics
C26_Witness ==
    /\ inflight = {[topic |-> PRODUCTS_TOPIC, at |-> 1]}
    /\ Len(stream[PRODUCTS_TOPIC]) = 2
    /\ Len(stream[REVIEWS_TOPIC]) = 1
    /\ offsets[PRODUCTS_TOPIC] = 0 /\ offsets[REVIEWS_TOPIC] = 0
    /\ products # {} /\ pricing_inventory = {}

(***************************************************************************)
(* The order of the startup.                                               *)
(***************************************************************************)
\* a message was handed to a handler
Processed ==
    \/ \E topic \in Topics : offsets[topic] > 0
    \/ handled[2].outcome # "none"
    \/ inflight # {}

\* C30: the startup is ordered: no message is handled before SELECT 1 has
\* succeeded and registerConnectors has returned (true or false), and no
\* registration is attempted before SELECT 1 has succeeded; when SELECT 1
\* fails the process exits: nothing is registered, no topic is subscribed
\* to, no message is handled, then or later.
C30_StartupIsOrdered ==
    /\ Processed =>
          /\ databaseChecked
          /\ registration # "none"
          /\ main = "running"
    /\ (attempts > 0 \/ registration # "none" \/ subscribed # {})
          => databaseChecked
    /\ ~databaseChecked => main \in {"checking", "exited"}
    /\ main = "exited" =>
          /\ ~Processed
          /\ \A topic \in Topics : ~ENABLED Dispatch(topic)
          /\ ~ENABLED (\E status \in RegistrationOutcomes : RegisterAttempt(status))
          /\ ~ENABLED (\E ok \in BOOLEAN : Subscribe(ok))

\* SELECT 1 failed and the process has exited, with three events in the
\* topics that nothing reads
C30_Witness ==
    /\ main = "exited"
    /\ ~databaseChecked
    /\ registration = "none"
    /\ Len(stream[PRODUCTS_TOPIC]) = 2 /\ Len(stream[REVIEWS_TOPIC]) = 1
    /\ pricing_inventory = {} /\ reviews_replica = {}

(***************************************************************************)
(* Properties of decodeDecimal.                                            *)
(***************************************************************************)
\* the whole text is a decimal literal: a sign or none, digits, and a
\* fraction or none
IsDecimalLiteral(s) ==
    LET p1 == IF s # <<>> /\ s[1] \in {"+", "-"} THEN 2 ELSE 1
        p2 == ScanDigits(s, p1)
        p3 == IF p2 <= Len(s) /\ s[p2] = "." THEN ScanDigits(s, p2 + 1) ELSE p2
    IN  /\ p3 = Len(s) + 1
        /\ p2 > p1 \/ p3 > p2 + 1

\* the bytes read as a big-endian two's-complement integer
RECURSIVE Unsigned(_)
Unsigned(bytes) ==
    IF bytes = <<>> THEN 0
    ELSE 256 * Unsigned(SubSeq(bytes, 1, Len(bytes) - 1)) + bytes[Len(bytes)]

Signed(bytes) ==
    IF bytes # <<>> /\ bytes[1] >= 128
    THEN Unsigned(bytes) - Pow2(8 * Len(bytes))
    ELSE Unsigned(bytes)

\* two numbers are the same number
SameNumber(a, b) ==
    /\ a.t = "number" /\ b.t = "number"
    /\ ~a.nan /\ ~b.nan
    /\ ~NumLess(a, b) /\ ~NumLess(b, a)

\* the call of decoding, when it is the call decode(value, scale), returned
\* the number m * 10^e
Decoded(value, m, e) ==
    decoding.value = value => SameNumber(decoding.result, Num(m, e))

\* C24: decodeDecimal returns a number as it is and decimal text as its
\* value (decode("12.34", 2) = 12.34); text that is not as a whole a
\* decimal literal is decoded from base64 to bytes, the bytes are read as
\* a big-endian two's-complement integer n and n / 10^scale is returned
\* (the two bytes of -100 with scale 2 give -1.00), for every byte
\* sequence of ByteInputs.
C24_DecodesTextOrBase64 ==
    decoding.result # Null =>
        /\ decoding.value.t = "number" => decoding.result = decoding.value
        /\ (decoding.value.t = "string" /\ IsDecimalLiteral(decoding.value.s))
              => SameNumber(decoding.result, ParseFloatOf(decoding.value.s))
        /\ (decoding.value.t = "string" /\ ~IsDecimalLiteral(decoding.value.s))
              => SameNumber(decoding.result,
                            Num(Signed(decoding.bytes), -decoding.scale))
        /\ Decoded(Str(<<"1", "2", ".", "3", "4">>), 1234, -2)
        /\ Decoded(Str(Base64Of(<<255, 156>>)), -100, -2)

\* the zero-price row of product 1: the other mirrored columns as the
\* event has them, the derived columns worked out from 0
ZeroPriceRow ==
    [id |-> 1, name |-> Str(<<"b">>), description |-> Str(<<"d">>),
     price |-> 0, stock |-> 300, image_url |-> Str(<<"u">>),
     category |-> Str(<<"c">>), dynamic_price |-> 0, demand_score |-> 90]

\* the handler applies the message when the store carries the upsert out
Applies(message) ==
    /\ Receive(PRODUCTS_TOPIC, message, "ok")
    /\ handled'[2].outcome = "upserted"

\* C25: decodeDecimal never throws: for a null, missing, empty or malformed
\* price it returns 0, and the product event that carries it is applied
\* all the same: its row is upserted with price 0, the derived columns
\* worked out from 0 and the other mirrored columns as the event has them.
C25_MalformedPriceIsZero ==
    \A message \in DegradedMessages :
        /\ consumerRunning => ENABLED Applies(message)
        /\ Was(2, PRODUCTS_TOPIC, message, "upserted")
              => pricing_inventory = {ZeroPriceRow}


\* C27: in every state of the gateway totalRequests is the sum of
\* monolithRequests and microserviceRequests, whatever the interleaving of
\* reads (answered, fallen back, failed or timed out), writes through the
\* proxies, changes of the weight, health checks and resets.
C27_TotalIsSumOfBackends ==
    stats.totalRequests = stats.monolithRequests + stats.microserviceRequests

\* a read that fell back and a product write, both counted, under a weight
\* that was set
C27_Witness ==
    /\ stats.totalRequests = 2
    /\ stats.monolithRequests = 1
    /\ stats.microserviceRequests = 1
    /\ trafficWeight # Num(0, 0)
    /\ \E r \in Requests : r.handler \in ReadHandlers /\ r.xFallback /\ r.pc = "done"
    /\ \E r \in Requests : r.handler = "monolithProductProxy"

\* C28: the trafficWeight in the _gateway metadata of an answer of
\* GET /api/products is the weight under which the backend of that request
\* was chosen, even when POST /admin/weight ran while the request waited for
\* its backend.
C28_ReportsWeightAtChoice ==
    \A r \in Requests :
        (r.handler = "list" /\ r.pc = "done" /\ r.gatewayWeight # Undefined)
            => r.gatewayWeight = GatewayWeightAtChoice(r)


\* C29: when the events of a topic up to the furthest one consumed were
\* carried out without a storage error and the consumer, set back to an
\* earlier offset any number of times, has read its way up to that event
\* again, the replica table is the one those events give when each is handled
\* once, in order; upserts and deletes alike.
C29_RedeliveryIsTolerated ==
    \A topic \in Topics :
        (~faulted /\ offsets[topic] = reached[topic])
            => Table(topic) = Replica(topic, reached[topic])

\* the update of a product was handled twice in a row, the second time
\* after a restart from the offset before it, and the replay is over
C29_Witness ==
    /\ ~faulted
    /\ Len(stream[PRODUCTS_TOPIC]) = 2
    /\ offsets[PRODUCTS_TOPIC] = 2 /\ reached[PRODUCTS_TOPIC] = 2
    /\ handled[1] = handled[2]
    /\ handled[2].topic = PRODUCTS_TOPIC
    /\ handled[2].message = stream[PRODUCTS_TOPIC][2]
    /\ handled[2].outcome = "upserted"
    /\ Cardinality(pricing_inventory) = 1

====
